---- MODULE Spec2Model ----
(***************************************************************************)
(* Model of the neurones delegation/execution core:                        *)
(*   - AgentResult            (src/neurones/models/result.py)              *)
(*   - AgentAdapter           (src/neurones/adapters/base.py)              *)
(*   - AgentExecutor          (src/neurones/core/executor.py)              *)
(*   - Orchestrator           (src/neurones/core/orchestrator.py)          *)
(*                                                                         *)
(* Two specifications share the module.  SpecExec is one run_parallel call *)
(* of an AgentExecutor: every task is a run_single coroutine that advances *)
(* between its suspension points (spawn, wait, sleep) interleaved with its *)
(* siblings.  SpecOrch is one Orchestrator.run call against an executor    *)
(* whose answers are inputs.                                               *)
(*                                                                         *)
(* Texts are sequences of lines and a line is a sequence of words, so that *)
(* pattern searches are computed on the text.                              *)
(***************************************************************************)
EXTENDS Integers, Sequences, FiniteSets, TLC

\* ------------------------------------------------------------------ bounds
MaxTasks == 2
MaxRetries == 2
MaxSubtasks == 2
MaxLines == 3

\* ------------------------------------------------------------- small helpers
None == [none |-> TRUE]

Range(s) == {s[k] : k \in 1..Len(s)}

RECURSIVE SeqsUpTo(_, _)
SeqsUpTo(S, n) ==
  IF n = 0 THEN {<<>>}
  ELSE LET shorter == SeqsUpTo(S, n - 1)
       IN  shorter \cup {Append(s, x) : s \in {t \in shorter : Len(t) = n - 1}, x \in S}

RECURSIVE SelectSeqIdx(_, _, _)
\* the subsequence of s at the positions k >= from for which keep[k] holds
SelectSeqIdx(s, keep, from) ==
  IF from > Len(s) THEN <<>>
  ELSE (IF keep[from] THEN <<s[from]>> ELSE <<>>) \o SelectSeqIdx(s, keep, from + 1)

\* ------------------------------------------------------------------- texts
EmptyText == <<>>

Words(text) == UNION {Range(text[k]) : k \in 1..Len(text)}

RECURSIVE StripLeft(_)
StripLeft(text) ==
  IF text = <<>> THEN <<>>
  ELSE IF text[1] = <<>> THEN StripLeft(Tail(text)) ELSE text

RECURSIVE StripRight(_)
StripRight(text) ==
  IF text = <<>> THEN <<>>
  ELSE IF text[Len(text)] = <<>> THEN StripRight(SubSeq(text, 1, Len(text) - 1)) ELSE text

\* the words of a text in reading order, line after line
RECURSIVE Flatten(_)
Flatten(text) == IF text = <<>> THEN <<>> ELSE text[1] \o Flatten(Tail(text))

\* str.strip(): blank leading and trailing lines are removed
Strip(text) == StripRight(StripLeft(text))

\* ------------------------------------------------------------- AgentResult
AgentResult(agent_name, output, success, returncode, stderr, rate_limited) ==
  [agent_name |-> agent_name, output |-> output, success |-> success,
   returncode |-> returncode, stderr |-> stderr, rate_limited |-> rate_limited,
   retries |-> 0]

\* str(error) of the exceptions the model raises
ErrorText(error) == error.text

from_error(agent_name, error) ==
  AgentResult(agent_name, EmptyText, FALSE, -1, ErrorText(error), FALSE)

TimeoutWords == {"timed out", "timeout"}

\* str.lower() on the words whose case matters to the model
Lower(w) == CASE w = "Timed Out" -> "timed out" [] w = "TIMEOUT" -> "timeout" [] OTHER -> w

LowerWords(text) == {Lower(w) : w \in Words(text)}

Label(name, retried) == [label |-> name, retried |-> retried]

status_label_timeout_first(r) ==
  IF r.success
    THEN (IF r.retries > 0 THEN Label("SUCCESS (retried Nx)", r.retries) ELSE Label("SUCCESS", 0))
    ELSE IF LowerWords(r.stderr) \cap TimeoutWords # {} THEN Label("TIMEOUT", 0)
    ELSE IF r.rate_limited THEN Label("RATE_LIMITED", 0)
    ELSE Label("FAILED", 0)

status_label_timed_out_only(r) ==
  IF r.success
    THEN (IF r.retries > 0 THEN Label("SUCCESS (retried Nx)", r.retries) ELSE Label("SUCCESS", 0))
    ELSE IF r.rate_limited THEN Label("RATE_LIMITED", 0)
    ELSE IF "timed out" \in LowerWords(r.stderr) THEN Label("TIMEOUT", 0)
    ELSE Label("FAILED", 0)

\* result.py 34-45
status_label(r) ==
  IF r.success
    THEN (IF r.retries > 0 THEN Label("SUCCESS (retried Nx)", r.retries) ELSE Label("SUCCESS", 0))
    ELSE IF r.rate_limited THEN Label("RATE_LIMITED", 0)
    ELSE IF LowerWords(r.stderr) \cap TimeoutWords # {} THEN Label("TIMEOUT", 0)
    ELSE Label("FAILED", 0)

\* ------------------------------------------------------------ AgentAdapter
RateLimitWords ==
  {"rate limit", "too many requests", "429", "quota exceeded",
   "resource exhausted", "overloaded", "retry after",
   "tokens per min", "requests per min"}

is_rate_limited_on_failure_only(stdout, stderr, returncode) ==
  returncode # 0 /\ Words(stdout \o stderr) \cap RateLimitWords # {}

is_rate_limited(stdout, stderr, returncode) ==
  Words(stdout \o stderr) \cap RateLimitWords # {}

\* the numbers the texts of the model spell out, with their values
Numerals == {"0", "1", "9", "429"}
NumeralValue(w) == CASE w = "0" -> 0 [] w = "1" -> 1 [] w = "9" -> 9 [] w = "429" -> 429

NoDelay == [found |-> FALSE, seconds |-> 0]

RECURSIVE first_retry_after(_, _)
first_retry_after(w, k) ==
  IF k >= Len(w) THEN NoDelay
  ELSE IF w[k] = "retry after" /\ w[k + 1] \in Numerals
    THEN [found |-> TRUE, seconds |-> NumeralValue(w[k + 1])]
    ELSE first_retry_after(w, k + 1)

extract_retry_after_stderr_only(stdout, stderr) == first_retry_after(Flatten(stderr), 1)

\* base.py 70-76: the first "retry after <number>" of stdout + "\n" + stderr;
\* the separator between the wording and the number may be a line break
extract_retry_after(stdout, stderr) == first_retry_after(Flatten(stdout \o stderr), 1)

BenignWords == {"punycode", "DeprecationWarning"}

\* GeminiAdapter drops the benign warning lines; the base class keeps stderr
filter_stderr(adapter, stderr) ==
  IF adapter.name = "gemini"
    THEN Strip(SelectSeqIdx(stderr,
                 [k \in 1..Len(stderr) |-> Range(stderr[k]) \cap BenignWords = {}], 1))
    ELSE stderr

parse_output_success_on_exit_zero(adapter, stdout, stderr, returncode) ==
  LET output == Strip(stdout)
      err == filter_stderr(adapter, Strip(stderr))
      rate_limited == is_rate_limited(output, err, returncode)
  IN  AgentResult(adapter.name, output, returncode = 0, returncode, err, rate_limited)

parse_output(adapter, stdout, stderr, returncode) ==
  LET output == Strip(stdout)
      err == filter_stderr(adapter, Strip(stderr))
      rate_limited == is_rate_limited(output, err, returncode)
  IN  AgentResult(adapter.name, output, returncode = 0 /\ ~rate_limited,
                  returncode, err, rate_limited)

\* ------------------------------------------------------------------- state
VARIABLES
  adapters,          \* the name -> adapter mapping, in insertion order
  max_retries,       \* AgentExecutor._max_retries
  retry_base_delay,  \* AgentExecutor._retry_base_delay (seconds)
  retry_max_delay,   \* AgentExecutor._retry_max_delay (seconds)
  proc_outputs,      \* what the child processes of this run may print
  run_times,         \* how long (seconds) a child of this run may take to finish
  tasks,             \* argument of run_parallel: sequence of <<agent, prompt>>
  rs,                \* rs[i]: the frame of the run_single coroutine of task i
  completed,         \* task indexes in the order their coroutines finished
  rp_state,          \* "running" | "returned" | "raised"
  processed,         \* the list run_parallel returns
  primary,           \* Orchestrator.primary
  available_agents,  \* Orchestrator.available_agents
  o_pc,              \* where Orchestrator.run is suspended
  analysis,          \* "pending" | "failed" | "ok"
  plan,              \* the plan _analyze returned (None before / on failure)
  o_tasks,           \* the task list run() built last
  broadcast_from,    \* the branch that asked for the worker broadcast
  calls,             \* the executor calls run() made, in order
  answers,           \* what the executor answered to each finished call
  results,           \* the results run() collected
  outcome,           \* how run() ended
  fn_in,             \* a function of the program and the argument it is applied to
  fn_out,            \* what it returned (None before the call)
  past_runs          \* the finished run() calls of this Orchestrator: calls, answers, outcome

execVars == <<max_retries, retry_base_delay, retry_max_delay, proc_outputs, run_times,
              tasks, rs, completed, rp_state, processed>>
orchVars == <<primary, available_agents, o_pc, analysis, plan, o_tasks,
              broadcast_from, calls, answers, results, outcome>>
fnVars == <<fn_in, fn_out>>
vars == <<adapters, execVars, orchVars, fnVars, past_runs>>

\* no function is being applied on its own
FnIdle == fn_in = None /\ fn_out = None

\* run() has not been called on this Orchestrator before
NoPastRun == past_runs = <<>>

\* ---------------------------------------------------------------- adapters
Adapter(key, name) == [key |-> key, name |-> name, timeout |-> 30]

StandardAdapters ==
  <<Adapter("claude", "claude"), Adapter("gemini", "gemini"), Adapter("codex", "codex")>>

AdapterKeys(m) == [k \in 1..Len(m) |-> m[k].key]

HasAdapter(m, key) == \E k \in 1..Len(m) : m[k].key = key

\* dict.get(agent_name)
GetAdapter(m, key) ==
  IF HasAdapter(m, key) THEN m[CHOOSE k \in 1..Len(m) : m[k].key = key] ELSE None

\* a plain prompt: its characters
Txt(s) == [kind |-> "text", text |-> s]

\* ------------------------------------------------- what a child process does
\* raw (stdout, stderr, exit code) of a finished process
ProcOutput(stdout, stderr, returncode) ==
  [stdout |-> stdout, stderr |-> stderr, returncode |-> returncode]

ProcOutputs ==
  { ProcOutput(<< <<"Hello!">>, <<>> >>, <<>>, 0),
    ProcOutput(<<>>, << <<"SyntaxError:", "invalid">> >>, 1),
    ProcOutput(<<>>, << <<"Error:", "429", "too many requests">> >>, 1),
    ProcOutput(<< <<"rate limit">>, <<"reached">> >>, <<>>, 0) }

\* rate-limit answers that name a delay: in stderr; with the wording at the
\* end of stdout and the number at the start of stderr; with no number
RetryAfterOutputs ==
  { ProcOutput(<<>>, << <<"rate limit", "exceeded.">>, <<"retry after", "9">> >>, 1),
    ProcOutput(<< <<"retry after">> >>, << <<"1">> >>, 1),
    ProcOutput(<<>>, << <<"retry after", "a while">> >>, 1) }

\* a good answer with the Node.js deprecation warning in stderr: the plain
\* warning, and one whose line also holds a "429" (a process id, say)
WarningOutputs ==
  { ProcOutput(<< <<"Hello!">> >>, << <<"DeprecationWarning", "punycode">> >>, 0),
    ProcOutput(<< <<"Hello!">> >>, << <<"429", "DeprecationWarning", "punycode">> >>, 0) }

Error(type, text) == [type |-> type, text |-> text]

TimeoutText(t) == IF t = 30 THEN "30s" ELSE "300s"

\* ------------------------------------------------- adapters' build_command
\* an optional argument that was passed
Given(v) == [given |-> v]

\* base.py 35-41: an adapter as constructed; "" stands for a default_model
\* of None or "", which lines 23-24 treat alike
AdapterConfig(name, auto_approve, default_model, extra_args) ==
  [name |-> name, binary_path |-> name, auto_approve |-> auto_approve,
   default_model |-> default_model, extra_args |-> extra_args]

\* `auto_approve if auto_approve is not None else self.auto_approve`
effective_approve(a, kw) ==
  IF kw.auto_approve # None THEN kw.auto_approve.given ELSE a.auto_approve

\* `model or self.default_model`
effective_model(a, kw) == IF kw.model # "" THEN kw.model ELSE a.default_model

\* claude.py 15-39
claude_build_command(a, prompt, kw) ==
  <<a.binary_path, "-p", prompt>>
  \o (IF kw.json_output THEN <<"--output-format", "json">> ELSE <<>>)
  \o (IF effective_model(a, kw) # "" THEN <<"--model", effective_model(a, kw)>> ELSE <<>>)
  \o (IF effective_approve(a, kw) THEN <<"--permission-mode", "dontAsk">> ELSE <<>>)
  \o (IF kw.system_prompt # "" THEN <<"--append-system-prompt", kw.system_prompt>> ELSE <<>>)
  \o (IF kw.max_turns # None /\ kw.max_turns.given # 0
        THEN <<"--max-turns", (IF kw.max_turns.given = 15 THEN "15" ELSE "1")>> ELSE <<>>)
  \o a.extra_args

\* gemini.py 15-35
gemini_build_command(a, prompt, kw) ==
  <<a.binary_path>>
  \o (IF kw.json_output THEN <<"--output-format", "json">> ELSE <<>>)
  \o (IF effective_model(a, kw) # "" THEN <<"-m", effective_model(a, kw)>> ELSE <<>>)
  \o (IF effective_approve(a, kw) THEN <<"-y">> ELSE <<>>)
  \o a.extra_args
  \o <<prompt>>

\* codex.py 15-35
codex_build_command(a, prompt, kw) ==
  <<a.binary_path, "exec">>
  \o (IF effective_model(a, kw) # "" THEN <<"-m", effective_model(a, kw)>> ELSE <<>>)
  \o (IF effective_approve(a, kw) THEN <<"--full-auto">> ELSE <<>>)
  \o (IF kw.json_output THEN <<"--json">> ELSE <<>>)
  \o a.extra_args
  \o <<prompt>>

\* adapter.build_command(prompt, **kwargs)
build_command(a, prompt, kw) ==
  IF a.name = "claude" THEN claude_build_command(a, prompt, kw)
  ELSE IF a.name = "gemini" THEN gemini_build_command(a, prompt, kw)
  ELSE codex_build_command(a, prompt, kw)

\* base.py 35-36: an adapter constructed with the defaults
AsConstructed(adapter) == AdapterConfig(adapter.name, TRUE, "", <<>>)

\* ------------------------------------------------------ AgentExecutor frames
Returned(r) == [kind |-> "result", r |-> r]
Raised(e) == [kind |-> "exception", error |-> e]
\* what left the coroutine is a BaseException that is no Exception
BaseRaised(e) == [kind |-> "base_exception", error |-> e]

\* attempt and last_result are the locals of run_single; spawns, sleeps,
\* attempts (how each attempt ended) and last_attempt (what the latest attempt
\* returned) record what the call did, timeouts how many waits timed out,
\* kill what proc.kill() did in the timeout handler, built how many
\* commands adapter.build_command built, delay the local `delay` and
\* last_raw what the child of the latest attempt printed, if it finished;
\* clock is time.monotonic() - total_start, attempt_secs the duration of each
\* attempt, slept the delay of each sleep, and duration the duration_seconds
\* of the result the call returned; cmd is the local `cmd` and argvs the
\* argument vector of each create_subprocess_exec
InitialFrame ==
  [pc |-> "start", attempt |-> 0, last_result |-> None, spawns |-> 0,
   sleeps |-> 0, attempts |-> <<>>, last_attempt |-> None, ret |-> None,
   timeouts |-> 0, kill |-> "none", built |-> 0, delay |-> 0, last_raw |-> None,
   clock |-> 0, attempt_secs |-> <<>>, slept |-> <<>>, duration |-> None,
   cmd |-> None, argvs |-> <<>>]

\* _execute_once took d seconds: `duration` of lines 94, 104 and 120; the
\* clock of the call (time.monotonic() - total_start) moves on with it
Tick(f, d) == [f EXCEPT !.clock = @ + d, !.attempt_secs = Append(@, d)]

duration_seconds_last_attempt(f) ==
  IF f.attempt_secs = <<>> THEN 0 ELSE f.attempt_secs[Len(f.attempt_secs)]

\* executor.py 49 and 62: time.monotonic() - total_start when the result is
\* returned (result.py 19: 0.0 for a result built before the clock starts)
duration_seconds(f) == f.clock

\* return / raise out of run_single: the locals die with the frame
Finish(f, ret) ==
  [f EXCEPT !.pc = "done", !.ret = ret, !.attempt = 0, !.last_result = None,
            !.delay = 0,
            !.duration = IF ret.kind = "result" THEN duration_seconds(f) ELSE None]

\* `for attempt in range(self._max_retries + 1)`: is there an iteration a ?
InRangeOneShort(a, mr) == a < mr
\* one budget of attempts for all the calls of the executor
InRangeSharedBudget(a, mr) ==
  Cardinality({p \in (1..Len(rs)) \X (1..(MaxRetries + 2)) :
                 p[2] <= Len(rs[p[1]].attempts)}) < mr + 1
InRangeOneMore(a, mr) == a < mr + 2
InRange(a, mr) == a < mr + 1

\* `if not result.rate_limited: ... return result`
EndsCallOnSuccessOnly(result) == result.success
EndsCall(result) == ~result.rate_limited

\* executor.py 48: result.retries = attempt
SetRetriesOneMore(result, n) == [result EXCEPT !.retries = n + 1]
SetRetries(result, n) == [result EXCEPT !.retries = n]

Min(a, b) == IF a <= b THEN a ELSE b

compute_delay_uncapped_server(attempt, last_result) ==
  LET server_delay == IF last_result # None
                        THEN extract_retry_after(last_result.output, last_result.stderr)
                        ELSE NoDelay
  IN  IF server_delay.found
        THEN server_delay.seconds
        ELSE Min(retry_base_delay * 2 ^ (attempt - 1), retry_max_delay)

\* executor.py 69-80
compute_delay(attempt, last_result) ==
  LET server_delay == IF last_result # None
                        THEN extract_retry_after(last_result.output, last_result.stderr)
                        ELSE NoDelay
  IN  IF server_delay.found
        THEN Min(server_delay.seconds, retry_max_delay)
        ELSE Min(retry_base_delay * 2 ^ (attempt - 1), retry_max_delay)

LoopHeadSleepingAfterLast(f, a) ==
  IF InRange(a, max_retries)
    THEN IF a > 0
           THEN [f EXCEPT !.attempt = a, !.pc = "sleep",
                          !.delay = compute_delay(a, f.last_result)]
           ELSE [f EXCEPT !.attempt = a, !.pc = "spawn"]
    ELSE IF f.last_result = None
      THEN Finish(f, Raised(Error("AssertionError", EmptyText)))
      ELSE Finish([f EXCEPT !.sleeps = @ + 1], Returned(SetRetries(f.last_result, max_retries)))

\* executor.py 36-44 and 59-67: the head of iteration a of the retry loop,
\* up to its first await (before a retry, line 38 has assigned `delay` and
\* the call is suspended in the sleep of line 43), or the code after the loop
\* when range() is exhausted
LoopHead(f, a) ==
  IF InRange(a, max_retries)
    THEN IF a > 0
           THEN [f EXCEPT !.attempt = a, !.pc = "sleep",
                          !.delay = compute_delay(a, f.last_result)]
           ELSE [f EXCEPT !.attempt = a, !.pc = "spawn"]
    ELSE IF f.last_result = None
      THEN Finish(f, Raised(Error("AssertionError", EmptyText)))
      ELSE Finish(f, Returned(SetRetries(f.last_result, max_retries)))

\* executor.py 45-57: _execute_once returned `result` in iteration f.attempt
AttemptDone(f, result) ==
  LET g == [f EXCEPT !.attempts = Append(@, IF result.rate_limited THEN "rate_limited"
                                                                     ELSE "other"),
                      !.last_attempt = result]
  IN  IF EndsCall(result)
        THEN Finish(g, Returned(SetRetries(result, f.attempt)))
        ELSE LoopHead([g EXCEPT !.last_result = result], f.attempt + 1)

\* an exception left _execute_once: it leaves run_single too
AttemptRaised(f, e) ==
  Finish([f EXCEPT !.attempts = Append(@, "raised"), !.last_attempt = None], Raised(e))

\* executor.py 119: `except Exception` lets a CancelledError through
AttemptCancelled(f) ==
  Finish([f EXCEPT !.attempts = Append(@, "raised"), !.last_attempt = None],
         BaseRaised(Error("CancelledError", EmptyText)))

StepCancellingSiblings(i, g) ==
  /\ rs' = IF g.pc = "done" /\ (g.ret.kind # "result" \/ ~g.ret.r.success)
             THEN [j \in 1..Len(tasks) |->
                     IF j = i THEN g
                     ELSE IF rs[j].pc # "done"
                       THEN Finish(rs[j], BaseRaised(Error("CancelledError", EmptyText)))
                       ELSE rs[j]]
             ELSE [rs EXCEPT ![i] = g]
  /\ completed' = IF g.pc = "done" THEN Append(completed, i) ELSE completed
  /\ UNCHANGED <<past_runs, fnVars, adapters, max_retries, retry_base_delay, retry_max_delay, proc_outputs,
                 run_times, tasks, rp_state, processed, orchVars>>

\* one coroutine of run_parallel advances to its next suspension point; the
\* frames of the other coroutines are not touched (executor.py 130-131)
Step(i, g) ==
  /\ rs' = [rs EXCEPT ![i] = g]
  /\ completed' = IF g.pc = "done" THEN Append(completed, i) ELSE completed
  /\ UNCHANGED <<past_runs, fnVars, adapters, max_retries, retry_base_delay, retry_max_delay, proc_outputs,
                 run_times, tasks, rp_state, processed, orchVars>>

unknown_agent_result_key_error(agent_name) ==
  from_error(agent_name, Error("KeyError", << <<agent_name>> >>))

\* executor.py 28
unknown_agent_result(agent_name) ==
  from_error(agent_name, Error("ValueError", << <<"Unknown agent:", agent_name>> >>))

\* executor.py 26-34
RunSingleStart(i) ==
  /\ rp_state = "running"
  /\ rs[i].pc = "start"
  /\ LET agent_name == tasks[i][1]
     IN  IF ~HasAdapter(adapters, agent_name)
           THEN Step(i, Finish(rs[i], Returned(unknown_agent_result(agent_name))))
           ELSE Step(i, LoopHead([rs[i] EXCEPT !.built = @ + 1,
                                   !.cmd = build_command(
                                     AsConstructed(GetAdapter(adapters, agent_name)),
                                     tasks[i][2],
                                     [json_output |-> FALSE, model |-> "",
                                      auto_approve |-> None, system_prompt |-> "",
                                      max_turns |-> None])], 0))

\* executor.py 43: asyncio.sleep(delay) ends
Sleep(i) ==
  /\ rp_state = "running"
  /\ rs[i].pc = "sleep"
  /\ LET delay == rs[i].delay
     IN  Step(i, [rs[i] EXCEPT !.pc = "spawn", !.sleeps = @ + 1,
                               !.clock = @ + delay, !.slept = Append(@, delay)])

\* executor.py 86-90 and 103-124: create_subprocess_exec returns or raises
Spawn(i) ==
  /\ rp_state = "running"
  /\ rs[i].pc = "spawn"
  /\ LET agent_name == tasks[i][1]
         f == [rs[i] EXCEPT !.spawns = @ + 1, !.last_raw = None,
                            !.argvs = Append(@, rs[i].cmd)]
     IN  \/ Step(i, [f EXCEPT !.pc = "wait"])
         \/ Step(i, AttemptDone(Tick(f, 0), from_error(agent_name,
                       Error("OSError", << <<"No such file">> >>))))
         \* the spawn raises TimeoutError.  Where asyncio.TimeoutError is the
         \* builtin, the handler of line 103 runs with `proc` unbound and the
         \* UnboundLocalError leaves run_single; elsewhere line 119 catches it.
         \/ Step(i, AttemptRaised(Tick(f, 0), Error("UnboundLocalError", << <<"proc">> >>)))
         \/ Step(i, AttemptDone(Tick(f, 0), from_error(agent_name,
                       Error("TimeoutError", << <<"spawn", "timed out">> >>))))

\* proc.kill() in the timeout handler: the child is killed, or it is gone
\* already and the ProcessLookupError is swallowed (executor.py 106-109)
KillOutcomes == {"killed", "ProcessLookupError"}

timeout_result_as_error(agent_name, adapter) ==
  from_error(agent_name, Error("TimeoutError", EmptyText))

\* executor.py 110-117: the result of an attempt that timed out
timeout_result(agent_name, adapter) ==
  AgentResult(agent_name, EmptyText, FALSE, -1,
    << <<"Agent", "timed out", "after", TimeoutText(adapter.timeout)>> >>, FALSE)

\* executor.py 91-124: communicate() finishes, times out or raises
Wait(i) ==
  /\ rp_state = "running"
  /\ rs[i].pc = "wait"
  /\ LET agent_name == tasks[i][1]
         adapter == GetAdapter(adapters, agent_name)
     IN  \/ \E o \in proc_outputs, d \in run_times :
              Step(i, AttemptDone(Tick([rs[i] EXCEPT !.last_raw = o], d),
                        parse_output(adapter, o.stdout, o.stderr, o.returncode)))
         \/ \E k \in KillOutcomes :
              Step(i, AttemptDone(Tick([rs[i] EXCEPT !.timeouts = @ + 1, !.kill = k],
                                       adapter.timeout),
                        timeout_result(agent_name, adapter)))
         \/ Step(i, AttemptDone(Tick(rs[i], 0), from_error(agent_name,
                       Error("OSError", << <<"No such file">> >>))))
         \* the wait is cancelled from inside the coroutine
         \/ Step(i, AttemptCancelled(Tick(rs[i], 0)))

\* asyncio.gather: one entry per coroutine, in the order of the coroutines
gather_in_completion_order(frames, n) == [k \in 1..n |-> frames[completed[k]].ret]
gather(frames, n) == [k \in 1..n |-> frames[k].ret]

\* executor.py 134-141
process_result(i, r) ==
  IF r.kind = "result" THEN r.r
  ELSE IF r.kind = "exception"
    THEN from_error(IF i <= Len(tasks) THEN tasks[i][1] ELSE "unknown", r.error)
    ELSE from_error("unknown", Error("RuntimeError", r.error.text))

\* executor.py 131: gather(*coros, return_exceptions=True)
return_exceptions == TRUE

\* executor.py 131-143: the join and the result list.  Without
\* return_exceptions the join would re-raise a coroutine's exception.
RunParallelReturn ==
  /\ rp_state = "running"
  /\ \A i \in 1..Len(tasks) : rs[i].pc = "done"
  /\ IF ~return_exceptions /\ \E i \in 1..Len(tasks) : rs[i].ret.kind = "exception"
       THEN /\ rp_state' = "raised"
            /\ UNCHANGED processed
       ELSE /\ LET gathered == gather(rs, Len(tasks))
               IN  processed' = [i \in 1..Len(tasks) |-> process_result(i, gathered[i])]
            /\ rp_state' = "returned"
  /\ UNCHANGED <<past_runs, fnVars, adapters, max_retries, retry_base_delay, retry_max_delay, proc_outputs,
                 run_times, tasks, rs, completed, orchVars>>

ExecAgents == {"claude", "gemini", "nope"}

\* orchestrator.py 63-67: an Orchestrator constructed over the adapters with
\* no available_agents argument, run() not called
OrchIdle ==
  /\ primary = "claude"
  /\ available_agents = AdapterKeys(adapters)
  /\ o_pc = "idle"
  /\ analysis = "pending"
  /\ plan = None
  /\ o_tasks = <<>>
  /\ broadcast_from = "none"
  /\ calls = <<>>
  /\ answers = <<>>
  /\ results = <<>>
  /\ outcome = None

\* run_parallel(tasks) has created its coroutines (executor.py 130)
InitExec ==
  /\ adapters = StandardAdapters
  /\ max_retries \in -1..MaxRetries
  /\ retry_base_delay = 5
  /\ retry_max_delay = 60
  /\ proc_outputs = ProcOutputs
  /\ run_times = {1}
  /\ tasks \in SeqsUpTo({<<a, Txt(<<"t">>)>> : a \in ExecAgents}, MaxTasks)
  /\ rs = [i \in 1..Len(tasks) |-> InitialFrame]
  /\ completed = <<>>
  /\ rp_state = "running"
  /\ processed = <<>>
  /\ OrchIdle
  /\ FnIdle
  /\ NoPastRun

\* the retry settings of a run: (retry_base_delay, retry_max_delay)
RetrySettings == {<<5, 60>>, <<2, 3>>, <<5, 3>>, <<1, 60>>}

\* one run_single call, alone in its run_parallel, with the retry settings
\* and the child outputs that exercise _compute_delay and the stderr filter
InitSingle ==
  /\ adapters = StandardAdapters
  /\ max_retries \in 0..MaxRetries
  /\ \E c \in RetrySettings : retry_base_delay = c[1] /\ retry_max_delay = c[2]
  /\ proc_outputs = ProcOutputs \cup RetryAfterOutputs \cup WarningOutputs
  /\ run_times = {1, 3}
  /\ tasks \in {<< <<a, Txt(<<"t">>)>> >> : a \in ExecAgents}
  /\ rs = [i \in 1..Len(tasks) |-> InitialFrame]
  /\ completed = <<>>
  /\ rp_state = "running"
  /\ processed = <<>>
  /\ OrchIdle
  /\ FnIdle
  /\ NoPastRun

\* a mapping whose key for the Claude adapter is not the adapter's name
\* (executor.py 18-19 takes any dict of name -> adapter)
AliasAdapters == <<Adapter("fast", "claude"), Adapter("gemini", "gemini")>>

\* one run_single call, alone in its run_parallel, over that mapping
InitAlias ==
  /\ adapters = AliasAdapters
  /\ max_retries \in 0..MaxRetries
  /\ retry_base_delay = 5
  /\ retry_max_delay = 60
  /\ proc_outputs = ProcOutputs
  /\ run_times = {1}
  /\ tasks \in {<< <<a, Txt(<<"t">>)>> >> : a \in {"fast", "gemini", "claude"}}
  /\ rs = [i \in 1..Len(tasks) |-> InitialFrame]
  /\ completed = <<>>
  /\ rp_state = "running"
  /\ processed = <<>>
  /\ OrchIdle
  /\ FnIdle
  /\ NoPastRun

NextExec ==
  \/ \E i \in 1..Len(tasks) : RunSingleStart(i)
  \/ \E i \in 1..Len(tasks) : Sleep(i)
  \/ \E i \in 1..Len(tasks) : Spawn(i)
  \/ \E i \in 1..Len(tasks) : Wait(i)
  \/ RunParallelReturn

SpecExec == InitExec /\ [][NextExec]_vars

SpecSingle == InitSingle /\ [][NextExec]_vars

SpecAlias == InitAlias /\ [][NextExec]_vars

\* the event loop runs a coroutine that can go on: every spawn, wait and
\* sleep of the call ends (executor.py 43, 86-93), and so does the join
SpecSingleFair == InitSingle /\ [][NextExec]_vars /\ WF_vars(NextExec)

\* ------------------------------------------------------------- JSON values
JNull == [t |-> "null"]
JBool(b) == [t |-> "bool", v |-> b]
JNum(n) == [t |-> "num", v |-> n]
JStr(chars) == [t |-> "str", v |-> chars]
JList(items) == [t |-> "list", v |-> items]
JObj(fields) == [t |-> "obj", v |-> fields]

\* Python truth value of a parsed JSON value
Truthy(j) ==
  CASE j.t = "null" -> FALSE
    [] j.t = "bool" -> j.v
    [] j.t = "num" -> j.v # 0
    [] j.t = "str" -> j.v # <<>>
    [] j.t = "list" -> j.v # <<>>
    [] j.t = "obj" -> DOMAIN j.v # {}

\* len() is defined
HasLen(j) == j.t \in {"str", "list", "obj"}

\* what `for x in j` yields (j has a length): the items of a list, the
\* characters of a string, the keys of an object (an object of the model
\* keeps no insertion order: the keys come in one fixed order)
IterItems(j) ==
  CASE j.t = "list" -> j.v
    [] j.t = "str" -> [k \in 1..Len(j.v) |-> JStr(<<j.v[k]>>)]
    [] j.t = "obj" ->
         LET keys == DOMAIN j.v
             order == CHOOSE s \in [1..Cardinality(keys) -> keys] :
                        \A key \in keys : \E k \in 1..Cardinality(keys) : s[k] = key
         IN  [k \in 1..Cardinality(keys) |-> JStr(<<order[k]>>)]
    [] OTHER -> <<>>

\* dict.get(key, default)
Get(obj, key, default) == IF key \in DOMAIN obj.v THEN obj.v[key] ELSE default

Whitespace == {" ", "\n", "\t"}

RECURSIVE LStripChars(_)
LStripChars(c) ==
  IF c = <<>> THEN <<>>
  ELSE IF c[1] \in Whitespace THEN LStripChars(Tail(c)) ELSE c

RECURSIVE RStripChars(_)
RStripChars(c) ==
  IF c = <<>> THEN <<>>
  ELSE IF c[Len(c)] \in Whitespace THEN RStripChars(SubSeq(c, 1, Len(c) - 1)) ELSE c

\* str.strip() on the characters of a prompt
StripChars(c) == RStripChars(LStripChars(c))

\* ------------------------------------------------------------ Orchestrator
primary_is_coordinator_only == primary = "claude"

build_worker_fallback_tasks(prompt) ==
  LET keys == AdapterKeys(adapters)
      kept == SelectSeqIdx(keys, [k \in 1..Len(keys) |-> keys[k] # primary], 1)
  IN  [k \in 1..Len(kept) |-> <<kept[k], prompt>>]

Built(ts) == [raised |-> FALSE, tasks |-> ts]
Broke(e) == [raised |-> TRUE, error |-> e]

dispatch_entry_keeps_primary(subtask) ==
  IF subtask.t # "obj"
    THEN Broke(Error("AttributeError", << <<"get">> >>))
    ELSE
      LET agent == Get(subtask, "agent", JStr(<<>>))
          task_prompt == Get(subtask, "prompt", JNull)
      IN  IF task_prompt.t # "str" \/ StripChars(task_prompt.v) = <<>>
            THEN Built(<<>>)
          ELSE IF agent.t \in {"list", "obj"}
            THEN Broke(Error("TypeError", << <<"unhashable type">> >>))
          ELSE IF agent.t # "str" \/ ~HasAdapter(adapters, agent.v)
            THEN Built(<<>>)
          ELSE Built(<< <<agent.v, Txt(task_prompt.v)>> >>)

\* orchestrator.py 173-187: one subtask of the plan; "skip", a task or an error
dispatch_entry(subtask) ==
  IF subtask.t # "obj"
    THEN Broke(Error("AttributeError", << <<"get">> >>))
    ELSE
      LET agent == Get(subtask, "agent", JStr(<<>>))
          task_prompt == Get(subtask, "prompt", JNull)
      IN  IF task_prompt.t # "str" \/ StripChars(task_prompt.v) = <<>>
            THEN Built(<<>>)
          ELSE IF agent.t \in {"list", "obj"}
            THEN Broke(Error("TypeError", << <<"unhashable type">> >>))
          ELSE IF agent.t # "str" \/ ~HasAdapter(adapters, agent.v)
            THEN Built(<<>>)
          ELSE IF primary_is_coordinator_only /\ agent.v = primary
            THEN Built(<<>>)
          ELSE Built(<< <<agent.v, Txt(task_prompt.v)>> >>)

RECURSIVE dispatch_loop(_, _, _)
dispatch_loop(items, k, acc) ==
  IF k > Len(items) THEN Built(acc)
  ELSE LET e == dispatch_entry(items[k])
       IN  IF e.raised THEN e ELSE dispatch_loop(items, k + 1, acc \o e.tasks)

build_dispatch_tasks_high_first(subtasks) ==
  LET items == IterItems(subtasks)
      high == [k \in 1..Len(items) |->
                 /\ items[k].t = "obj"
                 /\ "priority" \in DOMAIN items[k].v
                 /\ items[k].v.priority = JStr("high")]
      rest == [k \in 1..Len(items) |-> ~high[k]]
  IN  dispatch_loop(SelectSeqIdx(items, high, 1) \o SelectSeqIdx(items, rest, 1), 1, <<>>)

\* orchestrator.py 169-188
build_dispatch_tasks(subtasks) == dispatch_loop(IterItems(subtasks), 1, <<>>)

UpperName(n) ==
  CASE n = "claude" -> "CLAUDE" [] n = "gemini" -> "GEMINI"
    [] n = "codex" -> "CODEX" [] n = "ghost" -> "GHOST" [] OTHER -> "UNKNOWN"

\* orchestrator.py 231-243
build_synthesis_prompt(original_prompt, rlist) ==
  [kind |-> "synthesis", task |-> original_prompt,
   blocks |-> [k \in 1..Len(rlist) |->
                 [name |-> UpperName(rlist[k].agent_name),
                  status |-> status_label(rlist[k]),
                  output |-> rlist[k].output]]]

\* orchestrator.py 193-203
build_analysis_prompt(prompt) ==
  [kind |-> "analysis", policy |-> primary_is_coordinator_only,
   available |-> available_agents, request |-> prompt]

SingleCall(agent, prompt, json_output) ==
  [op |-> "run_single", agent |-> agent, prompt |-> prompt, json_output |-> json_output]
ParallelCall(ts) == [op |-> "run_parallel", tasks |-> ts]

UserPrompt == Txt(<<"P">>)

FatalError ==
  Error("RuntimeError", << <<"No worker agents available for coordinator-only primary">> >>)

\* run() raises e
RunRaises(e) ==
  /\ o_pc' = "done"
  /\ outcome' = [kind |-> "raised", error |-> e]
  /\ UNCHANGED <<calls, results>>

RunReturnsRaisingOnFailure(r) ==
  /\ o_pc' = "done"
  /\ outcome' = IF r.success THEN [kind |-> "returned", output |-> r.output]
                             ELSE [kind |-> "raised", error |-> Error("RuntimeError", r.stderr)]
  /\ UNCHANGED <<calls, results>>

\* run() returns result.output
RunReturns(r) ==
  /\ o_pc' = "done"
  /\ outcome' = [kind |-> "returned", output |-> r.output]
  /\ UNCHANGED <<calls, results>>

\* run() awaits executor.run_single(agent, prompt)
AwaitSingle(pc, prompt) ==
  /\ o_pc' = pc
  /\ calls' = Append(calls, SingleCall(primary, prompt, FALSE))
  /\ UNCHANGED <<outcome>>

\* run() awaits executor.run_parallel(ts)
AwaitParallel(pc, ts) ==
  /\ o_pc' = pc
  /\ calls' = Append(calls, ParallelCall(ts))
  /\ UNCHANGED <<outcome, results>>

BroadcastUnchecked(branch) ==
  LET ts == build_worker_fallback_tasks(UserPrompt)
  IN  /\ broadcast_from' = branch
      /\ o_tasks' = ts
      /\ AwaitParallel("await_broadcast", ts)

\* orchestrator.py 83-91 and 105-113: the worker broadcast, then synthesis
Broadcast(branch) ==
  LET ts == build_worker_fallback_tasks(UserPrompt)
  IN  /\ broadcast_from' = branch
      /\ o_tasks' = ts
      /\ IF ts = <<>> THEN RunRaises(FatalError)
                      ELSE AwaitParallel("await_broadcast", ts)

\* orchestrator.py 124-133 and 139-140: the worker broadcast in place of an
\* empty dispatch list; run() goes on to the self-task step
BroadcastThenSelfTask(branch) ==
  LET ts == build_worker_fallback_tasks(UserPrompt)
  IN  /\ broadcast_from' = branch
      /\ o_tasks' = ts
      /\ IF ts = <<>> THEN RunRaises(FatalError)
                      ELSE AwaitParallel("await_parallel", ts)

\* orchestrator.py 93-95, 115-118, 135-137: run the prompt on the primary
Direct ==
  /\ AwaitSingle("await_direct", UserPrompt)
  /\ UNCHANGED <<broadcast_from, o_tasks, results>>

\* ------------------------------------------------- answers of the executor
OkResult(agent) == AgentResult(agent, << <<"answer", agent>> >>, TRUE, 0, EmptyText, FALSE)
FailedResult(agent) == AgentResult(agent, EmptyText, FALSE, 1, << <<"boom">> >>, FALSE)

\* what run_single may return for a text prompt
SingleAnswers(agent) == {OkResult(agent), FailedResult(agent)}

\* what run_single may raise for a text prompt instead of returning: the
\* spawn of the child timed out, and the handler's proc.kill() finds no proc
\* (executor.py 86-112)
SingleRaises ==
  {[kind |-> "raised", error |-> Error("UnboundLocalError", << <<"proc">> >>)]}

\* what run_parallel may return for a task list: one result per task
RECURSIVE ParallelAnswers(_)
ParallelAnswers(ts) ==
  IF ts = <<>> THEN {<<>>}
  ELSE {<<r>> \o rest : r \in SingleAnswers(ts[1][1]), rest \in ParallelAnswers(Tail(ts))}

\* the subtasks the primary may propose
SubtaskAgents == {JStr("claude"), JStr("gemini"), JStr("ghost"), JList(<<>>)}
SubtaskPrompts == {JStr(<<"p">>), JStr(<<" ">>)}

SubtaskEntries ==
  {JNum(5)}
  \cup {JObj([agent |-> a, prompt |-> q]) : a \in SubtaskAgents, q \in SubtaskPrompts}
  \cup {JObj([agent |-> a]) : a \in {JStr("gemini")}}
  \cup {JObj([agent |-> JStr("gemini"), prompt |-> JNum(5)])}
  \cup {JObj([agent |-> JStr("gemini"), prompt |-> JStr(<<"p">>), priority |-> JStr("low")]),
        JObj([agent |-> JStr("gemini"), prompt |-> JStr(<<"q">>), priority |-> JStr("high")])}

SubtaskValues ==
  {JNull, JStr(<<"x">>), JObj([agent |-> JStr("gemini"), prompt |-> JStr(<<"p">>)])}
  \cup {JList(items) : items \in SeqsUpTo(SubtaskEntries, MaxSubtasks)}

SelfTaskValues == {JNull, JStr(<<>>), JStr(<<"S">>), JNum(5)}

DelegateValues == {JBool(TRUE), JBool(FALSE), JStr(<<"no">>)}

\* the objects with a delegate key the primary may answer
Plans ==
  {JObj([delegate |-> d]) : d \in DelegateValues}
  \cup {JObj([delegate |-> d, subtasks |-> st, self_task |-> me]) :
          d \in DelegateValues, st \in SubtaskValues, me \in SelfTaskValues}

\* what json.loads(extract_json_block(output)) makes of the primary's output
Unparseable == [t |-> "unparseable"]

ParsedOutputs ==
  {Unparseable, JList(<<>>), JObj([reasoning |-> JStr(<<"r">>)])} \cup Plans

\* the answers the executor may give to the call run() awaits: any of S, or,
\* in a run() that is given the responses of an earlier one, the response
\* the earlier run got at this point
Offered(S) ==
  IF past_runs = <<>> THEN S
  ELSE IF Len(answers) < Len(past_runs[1].answers)
    THEN {past_runs[1].answers[Len(answers) + 1]} \cap S
    ELSE {}

\* ------------------------------------------------------- Orchestrator.run
\* orchestrator.py 69-75 and 190-207: run() starts and awaits the analysis
Run ==
  /\ o_pc = "idle"
  /\ o_pc' = "await_analysis"
  /\ calls' = Append(calls, SingleCall(primary, build_analysis_prompt(UserPrompt), TRUE))
  /\ UNCHANGED <<past_runs, fnVars, adapters, execVars, primary, available_agents, analysis, plan,
                 o_tasks, broadcast_from, answers, results, outcome>>

\* orchestrator.py 76-95: _analyze raised
AnalysisFailed ==
  /\ analysis' = "failed"
  /\ plan' = None
  /\ IF primary_is_coordinator_only
       THEN Broadcast("analysis_failure")
       ELSE Direct

\* orchestrator.py 97-140: _analyze returned the plan p
PlanAccepted(p) ==
  /\ analysis' = "ok"
  /\ plan' = p
  /\ LET subtasks == Get(p, "subtasks", JList(<<>>))
         built == build_dispatch_tasks(subtasks)
     IN  IF ~HasLen(subtasks)
           THEN /\ RunRaises(Error("TypeError", << <<"has no len()">> >>))
                /\ UNCHANGED <<broadcast_from, o_tasks>>
         ELSE IF ~Truthy(Get(p, "delegate", JBool(FALSE)))
           THEN IF primary_is_coordinator_only THEN Broadcast("no_delegate") ELSE Direct
         ELSE IF built.raised
           THEN /\ RunRaises(built.error)
                /\ UNCHANGED <<broadcast_from, o_tasks>>
         ELSE IF built.tasks # <<>>
           THEN /\ o_tasks' = built.tasks
                /\ AwaitParallel("await_parallel", built.tasks)
                /\ UNCHANGED broadcast_from
         ELSE IF primary_is_coordinator_only
           THEN BroadcastThenSelfTask("no_subtasks")
         ELSE Direct

\* orchestrator.py 209-229: _analyze returns the parsed value (it raises
\* otherwise)
analyze_returns(success, parsed) ==
  /\ success
  /\ parsed.t = "obj"
  /\ "delegate" \in DOMAIN parsed.v

\* orchestrator.py 205-229 then 76-140: the analysis invocation answers, or
\* raises into the except clause of line 76
AnalysisReturns ==
  /\ o_pc = "await_analysis"
  /\ \/ \E a \in Offered([success : BOOLEAN, parsed : ParsedOutputs]) :
          /\ answers' = Append(answers, a)
          /\ IF analyze_returns(a.success, a.parsed) THEN PlanAccepted(a.parsed)
                                                     ELSE AnalysisFailed
     \/ \E e \in Offered(SingleRaises) :
          /\ answers' = Append(answers, e)
          /\ AnalysisFailed
  /\ UNCHANGED <<past_runs, fnVars, adapters, execVars, primary, available_agents>>

\* orchestrator.py 152-154: build the synthesis prompt and await it
Synthesize(rlist) ==
  /\ o_pc' = "await_synthesis"
  /\ results' = rlist
  /\ calls' = Append(calls, SingleCall(primary, build_synthesis_prompt(UserPrompt, rlist), FALSE))
  /\ UNCHANGED outcome

\* orchestrator.py 88-90 and 110-112: the broadcast returned
BroadcastReturns ==
  /\ o_pc = "await_broadcast"
  /\ \E rlist \in Offered(ParallelAnswers(o_tasks)) :
       /\ answers' = Append(answers, rlist)
       /\ Synthesize(rlist)
  /\ UNCHANGED <<past_runs, fnVars, adapters, execVars, primary, available_agents, analysis, plan,
                 o_tasks, broadcast_from>>

\* orchestrator.py 140-154: the dispatch returned; self-task or synthesis
ParallelReturns ==
  /\ o_pc = "await_parallel"
  /\ \E rlist \in Offered(ParallelAnswers(o_tasks)) :
       LET self_task == Get(plan, "self_task", JNull)
       IN  /\ answers' = Append(answers, rlist)
           /\ IF Truthy(self_task) /\ ~primary_is_coordinator_only
             THEN /\ o_pc' = "await_self_task"
                  /\ results' = rlist
                  /\ calls' = Append(calls,
                       SingleCall(primary,
                         IF self_task.t = "str" THEN Txt(self_task.v) ELSE self_task, FALSE))
                  /\ UNCHANGED outcome
             ELSE Synthesize(rlist)
  /\ UNCHANGED <<past_runs, fnVars, adapters, execVars, primary, available_agents, analysis, plan,
                 o_tasks, broadcast_from>>

\* orchestrator.py 148: results.append(primary_result)
append_primary_result(rlist, primary_result) == Append(rlist, primary_result)

\* orchestrator.py 146-154: the self-task answered, or run_single raised (on
\* a prompt that is not a string, executor.py 30-31) and run() lets it out
SelfTaskReturns ==
  /\ o_pc = "await_self_task"
  /\ LET self_task == Get(plan, "self_task", JNull)
     IN  \/ \E r \in Offered(IF self_task.t = "str" THEN SingleAnswers(primary)
                                                    ELSE {FailedResult(primary)}) :
              /\ answers' = Append(answers, r)
              /\ Synthesize(append_primary_result(results, r))
         \/ \E e \in Offered(IF self_task.t = "str" THEN SingleRaises
                                ELSE {[kind |-> "raised",
                                       error |-> Error("TypeError",
                                                       << <<"expected str instance">> >>)]}) :
              /\ answers' = Append(answers, e)
              /\ RunRaises(e.error)
  /\ UNCHANGED <<past_runs, fnVars, adapters, execVars, primary, available_agents, analysis, plan,
                 o_tasks, broadcast_from>>

\* orchestrator.py 154-155 (also 90-91, 112-113): return final.output, or
\* the exception of run_single leaves run()
SynthesisReturns ==
  /\ o_pc = "await_synthesis"
  /\ \/ \E r \in Offered(SingleAnswers(primary)) :
          /\ answers' = Append(answers, r)
          /\ RunReturns(r)
     \/ \E e \in Offered(SingleRaises) :
          /\ answers' = Append(answers, e)
          /\ RunRaises(e.error)
  /\ UNCHANGED <<past_runs, fnVars, adapters, execVars, primary, available_agents, analysis, plan,
                 o_tasks, broadcast_from>>

\* orchestrator.py 94-95, 117-118, 136-137: return result.output, or the
\* exception of run_single leaves run()
DirectReturns ==
  /\ o_pc = "await_direct"
  /\ \/ \E r \in Offered(SingleAnswers(primary)) :
          /\ answers' = Append(answers, r)
          /\ RunReturns(r)
     \/ \E e \in Offered(SingleRaises) :
          /\ answers' = Append(answers, e)
          /\ RunRaises(e.error)
  /\ UNCHANGED <<past_runs, fnVars, adapters, execVars, primary, available_agents, analysis, plan,
                 o_tasks, broadcast_from>>

ExecIdle ==
  /\ max_retries = 3
  /\ retry_base_delay = 5
  /\ retry_max_delay = 60
  /\ proc_outputs = {}
  /\ run_times = {}
  /\ tasks = <<>>
  /\ rs = <<>>
  /\ completed = <<>>
  /\ rp_state = "idle"
  /\ processed = <<>>

OrchAdapterMaps ==
  { StandardAdapters,
    <<Adapter("claude", "claude")>>,
    <<Adapter("gemini", "gemini")>>,
    <<Adapter("gemini", "gemini"), Adapter("claude", "claude")>> }

\* orchestrator.py 55-67: the state after construction
InitOrch ==
  /\ adapters \in OrchAdapterMaps
  /\ primary \in {"claude", "gemini"} \cap Range(AdapterKeys(adapters))
  /\ available_agents \in {AdapterKeys(adapters), <<primary>>}
  /\ o_pc = "idle"
  /\ analysis = "pending"
  /\ plan = None
  /\ o_tasks = <<>>
  /\ broadcast_from = "none"
  /\ calls = <<>>
  /\ answers = <<>>
  /\ results = <<>>
  /\ outcome = None
  /\ ExecIdle
  /\ FnIdle
  /\ NoPastRun

NextOrch ==
  \/ Run
  \/ AnalysisReturns
  \/ BroadcastReturns
  \/ ParallelReturns
  \/ SelfTaskReturns
  \/ SynthesisReturns
  \/ DirectReturns

SpecOrch == InitOrch /\ [][NextOrch]_vars

\* ------------------------------------------------ a second Orchestrator.run
RunAgainForgettingAgents ==
  /\ o_pc = "done"
  /\ past_runs = <<>>
  /\ past_runs' = <<[calls |-> calls, answers |-> answers, outcome |-> outcome]>>
  /\ o_pc' = "await_analysis"
  /\ calls' = <<SingleCall(primary, build_analysis_prompt(UserPrompt), TRUE)>>
  /\ analysis' = "pending"
  /\ plan' = None
  /\ o_tasks' = <<>>
  /\ broadcast_from' = "none"
  /\ answers' = <<>>
  /\ results' = <<>>
  /\ outcome' = None
  /\ available_agents' = <<primary>>
  /\ UNCHANGED <<fnVars, adapters, execVars, primary>>

\* orchestrator.py 69-75: run() is called again on the same Orchestrator.
\* What run() works with besides the three attributes set by __init__
\* (orchestrator.py 63-67) are locals of the call, created anew.
RunAgain ==
  /\ o_pc = "done"
  /\ past_runs = <<>>
  /\ past_runs' = <<[calls |-> calls, answers |-> answers, outcome |-> outcome]>>
  /\ o_pc' = "await_analysis"
  /\ calls' = <<SingleCall(primary, build_analysis_prompt(UserPrompt), TRUE)>>
  /\ analysis' = "pending"
  /\ plan' = None
  /\ o_tasks' = <<>>
  /\ broadcast_from' = "none"
  /\ answers' = <<>>
  /\ results' = <<>>
  /\ outcome' = None
  /\ UNCHANGED <<fnVars, adapters, execVars, primary, available_agents>>

NextRerun ==
  \/ Run
  \/ AnalysisReturns
  \/ BroadcastReturns
  \/ ParallelReturns
  \/ SelfTaskReturns
  \/ SynthesisReturns
  \/ DirectReturns
  \/ RunAgain

SpecRerun == InitOrch /\ [][NextRerun]_vars

\* ------------------------------------------- AgentResult.status_label alone
\* error texts of results: none, a plain failure, a rate-limit message, the
\* executor's timeout text, and other spellings of a timeout
LabelStderrs ==
  { EmptyText,
    << <<"boom">> >>,
    << <<"Error:", "429">> >>,
    << <<"Agent", "timed out", "after", "30s">> >>,
    << <<"Connection", "timeout">> >>,
    << <<"Request", "Timed Out">> >> }

\* any AgentResult the dataclass can hold (result.py 9-21): the constructor
\* checks nothing, so the flags are independent fields
LabelInputs ==
  { [AgentResult("test", EmptyText, success, 0, stderr, rate_limited) EXCEPT !.retries = n] :
      success \in BOOLEAN, rate_limited \in BOOLEAN, n \in 0..MaxRetries,
      stderr \in LabelStderrs }

InitLabel ==
  /\ adapters = StandardAdapters
  /\ fn_in \in {[fn |-> "status_label", arg |-> r] : r \in LabelInputs}
  /\ fn_out = None
  /\ NoPastRun
  /\ ExecIdle
  /\ OrchIdle

\* result.status_label is read
ApplyStatusLabel ==
  /\ fn_in.fn = "status_label"
  /\ fn_out = None
  /\ fn_out' = status_label(fn_in.arg)
  /\ UNCHANGED <<past_runs, fn_in, adapters, execVars, orchVars>>

NextLabel == ApplyStatusLabel

SpecLabel == InitLabel /\ [][NextLabel]_vars

\* ------------------------------------------------------ Comparator.compare
\* the agents argument of compare: absent, empty, or a list of names
AgentList(names) == [given |-> TRUE, names |-> names]

CompareAgentLists ==
  {[given |-> FALSE, names |-> <<>>]} \cup
  { AgentList(l) : l \in { <<>>, <<"claude">>, <<"gemini", "claude">>, <<"claude", "claude">>,
                           <<"nope">>, <<"nope", "gemini">>, <<"codex", "nope", "claude">> } }

ComparePrompts == {UserPrompt, Txt(<<"Q">>)}

CompareAdapterMaps == OrchAdapterMaps \cup {<<>>}

Awaiting == [kind |-> "awaiting"]
CompareReturned(v) == [kind |-> "returned", value |-> v]

compare_tasks_unfiltered(m, prompt, agents) ==
  LET target_agents == IF agents.names = <<>> THEN AdapterKeys(m) ELSE agents.names
  IN  [k \in 1..Len(target_agents) |-> <<target_agents[k], prompt>>]

\* comparator.py 19-20: `agents or list(self.adapters.keys())` (None and the
\* empty list both give every key), then one
\* (agent, prompt) pair per target that is a key of the adapters
compare_tasks(m, prompt, agents) ==
  LET target_agents == IF agents.names = <<>> THEN AdapterKeys(m) ELSE agents.names
      known(a) == HasAdapter(m, a)
      kept == SelectSeq(target_agents, known)
  IN  [k \in 1..Len(kept) |-> <<kept[k], prompt>>]

\* comparator.py 15: a Comparator over the adapters, compare() about to run
InitCompare ==
  /\ adapters \in CompareAdapterMaps
  /\ fn_in \in {[fn |-> "compare", prompt |-> p, agents |-> a] :
                  p \in ComparePrompts, a \in CompareAgentLists}
  /\ fn_out = None
  /\ NoPastRun
  /\ ExecIdle
  /\ OrchIdle

\* comparator.py 17-27: compare() up to the await of run_parallel, or its
\* return of [] when no task is left
Compare ==
  /\ fn_in.fn = "compare"
  /\ fn_out = None
  /\ LET ts == compare_tasks(adapters, fn_in.prompt, fn_in.agents)
     IN  IF ts = <<>>
           THEN /\ fn_out' = CompareReturned(<<>>)
                /\ UNCHANGED calls
           ELSE /\ fn_out' = Awaiting
                /\ calls' = Append(calls, ParallelCall(ts))
  /\ UNCHANGED <<past_runs, fn_in, adapters, execVars, primary, available_agents, o_pc, analysis,
                 plan, o_tasks, broadcast_from, answers, results, outcome>>

\* comparator.py 27-28: run_parallel answers and compare() returns its list
CompareReturns ==
  /\ fn_in.fn = "compare"
  /\ fn_out = Awaiting
  /\ \E rl \in ParallelAnswers(calls[Len(calls)].tasks) :
       /\ answers' = Append(answers, rl)
       /\ fn_out' = CompareReturned(rl)
  /\ UNCHANGED <<past_runs, fn_in, adapters, execVars, primary, available_agents, o_pc, analysis,
                 plan, o_tasks, broadcast_from, calls, results, outcome>>

NextCompare ==
  \/ Compare
  \/ CompareReturns

SpecCompare == InitCompare /\ [][NextCompare]_vars

\* ----------------------------------------- build_command over configurations
\* extra_args of the agent configuration (models/config.py 16 and 31)
ExtraArgsChoices ==
  { <<>>, <<"--skip-git-repo-check">>, <<"-y">>, <<"--full-auto">>,
    <<"--permission-mode", "dontAsk">>, <<"-m", "o3">>, <<"--model", "o3">> }

AdapterConfigs ==
  { AdapterConfig(n, ap, dm, ea) :
      n \in {"claude", "gemini", "codex"}, ap \in BOOLEAN, dm \in {"", "dm"},
      ea \in ExtraArgsChoices }

\* the keyword arguments of build_command; "" stands for None or ""
BuildKwargs ==
  [ json_output : BOOLEAN,
    model : {"", "opus"},
    auto_approve : {None, Given(TRUE), Given(FALSE)},
    system_prompt : {"", "sys"},
    max_turns : {None, Given(15)} ]

InitBuild ==
  /\ adapters = StandardAdapters
  /\ fn_in \in {[fn |-> "build_command", adapter |-> a, prompt |-> "hello", kwargs |-> kw] :
                  a \in AdapterConfigs, kw \in BuildKwargs}
  /\ fn_out = None
  /\ NoPastRun
  /\ ExecIdle
  /\ OrchIdle

\* adapter.build_command(prompt, **kwargs) is called
ApplyBuildCommand ==
  /\ fn_in.fn = "build_command"
  /\ fn_out = None
  /\ fn_out' = build_command(fn_in.adapter, fn_in.prompt, fn_in.kwargs)
  /\ UNCHANGED <<past_runs, fn_in, adapters, execVars, orchVars>>

NextBuild == ApplyBuildCommand

SpecBuild == InitBuild /\ [][NextBuild]_vars

\* ---------------------------------------------------- AgentAdapter.stream
\* the byte lines a child may write to stdout: plain text, rate-limit
\* wording, and a line with a byte that is no UTF-8
StreamLines == {"Hello!\\n", "Error: 429 too many requests\\n", "rate limit\\n", "\\xff\\n"}

\* line.decode("utf-8", errors="replace")
Decode(line) == IF line = "\\xff\\n" THEN "\\ufffd\\n" ELSE line

\* the generator's frame: where it is, the processes spawned, the lines read
\* from the pipe and the chunks yielded so far
StreamFrame(pc, spawns, read, yielded) ==
  [pc |-> pc, spawns |-> spawns, read |-> read, yielded |-> yielded]

\* base.py 82: stream(prompt) is about to be iterated; the child will write
\* fn_in.lines
InitStream ==
  /\ adapters = StandardAdapters
  /\ fn_in \in {[fn |-> "stream", lines |-> l] : l \in SeqsUpTo(StreamLines, MaxLines)}
  /\ fn_out = StreamFrame("start", 0, 0, <<>>)
  /\ NoPastRun
  /\ ExecIdle
  /\ OrchIdle

\* base.py 84-90: the command is built and the child spawned, or the spawn
\* raises and the exception leaves the generator
StreamSpawn ==
  /\ fn_in.fn = "stream"
  /\ fn_out.pc = "start"
  /\ \/ fn_out' = [fn_out EXCEPT !.pc = "reading", !.spawns = @ + 1]
     \/ fn_out' = [fn_out EXCEPT !.pc = "raised", !.spawns = @ + 1]
  /\ UNCHANGED <<past_runs, fn_in, adapters, execVars, orchVars>>

\* base.py 91-92: the next line of the pipe is decoded and yielded
StreamYield ==
  /\ fn_in.fn = "stream"
  /\ fn_out.pc = "reading"
  /\ fn_out.read < Len(fn_in.lines)
  /\ fn_out' = [fn_out EXCEPT !.read = @ + 1,
                              !.yielded = Append(@, Decode(fn_in.lines[fn_out.read + 1]))]
  /\ UNCHANGED <<past_runs, fn_in, adapters, execVars, orchVars>>

\* base.py 91: the pipe is at its end, the loop is left and the generator
\* awaits proc.wait() (base.py 93)
StreamEof ==
  /\ fn_in.fn = "stream"
  /\ fn_out.pc = "reading"
  /\ fn_out.read = Len(fn_in.lines)
  /\ fn_out' = [fn_out EXCEPT !.pc = "waiting"]
  /\ UNCHANGED <<past_runs, fn_in, adapters, execVars, orchVars>>

StreamWaitRetrying ==
  /\ fn_in.fn = "stream"
  /\ fn_out.pc = "waiting"
  /\ IF Range(fn_in.lines) \cap {"Error: 429 too many requests\\n", "rate limit\\n"} # {} /\ fn_out.spawns <= MaxRetries
       THEN fn_out' = [fn_out EXCEPT !.pc = "reading", !.read = 0, !.spawns = @ + 1]
       ELSE fn_out' = [fn_out EXCEPT !.pc = "done"]
  /\ UNCHANGED <<past_runs, fn_in, adapters, execVars, orchVars>>

\* base.py 93: proc.wait() returns and the generator ends
StreamWait ==
  /\ fn_in.fn = "stream"
  /\ fn_out.pc = "waiting"
  /\ fn_out' = [fn_out EXCEPT !.pc = "done"]
  /\ UNCHANGED <<past_runs, fn_in, adapters, execVars, orchVars>>

NextStream ==
  \/ StreamSpawn
  \/ StreamYield
  \/ StreamEof
  \/ StreamWait

SpecStream == InitStream /\ [][NextStream]_vars

\* ------------------------------------------------------------------ claims
Known(i) == HasAdapter(adapters, tasks[i][1])

\* the executor answered a run_single with a result (it did not raise)
GaveResult(a) == "success" \in DOMAIN a

\* every attempt k of the call, 1 <= k <= n, ended rate-limited
AllRateLimited(f, n) == \A k \in 1..n : f.attempts[k] = "rate_limited"

\* C1: run_parallel never raises and returns one result per input task, in
\* input order: result i is what task i's run_single returned, or the failed
\* result made from the exception that left it, whatever order the tasks
\* completed in.
C1_RunParallelOneResultPerTaskInOrder ==
  /\ rp_state # "raised"
  /\ rp_state = "returned" =>
       /\ Len(processed) = Len(tasks)
       /\ \A i \in 1..Len(tasks) :
            IF rs[i].ret.kind = "result"
              THEN processed[i] = rs[i].ret.r
              ELSE /\ ~processed[i].success
                   /\ processed[i].stderr = rs[i].ret.error.text

\* two tasks that finished in reverse order with different outcomes, one of
\* them by an exception that left run_single
C1_Witness ==
  /\ rp_state = "returned"
  /\ Len(tasks) = 2
  /\ completed = <<2, 1>>
  /\ rs[1].ret.kind = "exception"
  /\ rs[2].ret.kind = "result"
  /\ processed[2].success
  /\ processed[1] # processed[2]

\* C2: a run_single call on a known agent whose first N attempts were
\* rate-limited (0 <= N <= max_retries) and whose next attempt returned a
\* result that is not rate-limited returns that result with retries = N,
\* after exactly N+1 spawns.
C2_RetriesCountRateLimitedAttempts ==
  \A i \in 1..Len(tasks) :
    LET f == rs[i]
        n == Len(f.attempts) - 1
    IN  (/\ f.pc = "done"
         /\ Known(i)
         /\ n >= 0
         /\ n <= max_retries
         /\ AllRateLimited(f, n)
         /\ f.attempts[n + 1] = "other")
        => /\ f.ret.kind = "result"
           /\ f.ret.r = [f.last_attempt EXCEPT !.retries = n]
           /\ f.ret.r.retries = n
           /\ f.spawns = n + 1

\* two rate-limited attempts, then a success
C2_Witness ==
  \E i \in 1..Len(tasks) :
    /\ rs[i].pc = "done"
    /\ rs[i].attempts = <<"rate_limited", "rate_limited", "other">>
    /\ rs[i].ret.kind = "result"
    /\ rs[i].ret.r.success
    /\ rs[i].ret.r.retries = 2
    /\ rs[i].spawns = 3

\* C3: when every attempt of a run_single call is rate-limited (max_retries
\* >= 0), exactly max_retries+1 processes are spawned and the call returns the
\* last attempt's result with rate_limited, not success, retries = max_retries
\* and status label RATE_LIMITED.
C3_ExhaustedRetries ==
  \A i \in 1..Len(tasks) :
    LET f == rs[i]
    IN  (/\ f.pc = "done"
         /\ max_retries >= 0
         /\ f.attempts # <<>>
         /\ AllRateLimited(f, Len(f.attempts)))
        => /\ f.spawns = max_retries + 1
           /\ Len(f.attempts) = max_retries + 1
           /\ f.ret.kind = "result"
           /\ f.ret.r = [f.last_attempt EXCEPT !.retries = max_retries]
           /\ f.ret.r.rate_limited
           /\ ~f.ret.r.success
           /\ f.ret.r.retries = max_retries
           /\ status_label(f.ret.r) = Label("RATE_LIMITED", 0)

\* max_retries = 2 and three rate-limited attempts
C3_Witness ==
  \E i \in 1..Len(tasks) :
    /\ max_retries = 2
    /\ rs[i].pc = "done"
    /\ rs[i].attempts = <<"rate_limited", "rate_limited", "rate_limited">>
    /\ rs[i].ret.kind = "result"

\* C4: an attempt is followed by another one only if its result is
\* rate-limited: once an attempt ended by timeout, by an exception or by a
\* result that is not rate-limited, the call is over and there was no further
\* sleep and no further spawn.
C4_RetryOnlyOnRateLimit ==
  \A i \in 1..Len(tasks) :
    LET f == rs[i]
        n == Len(f.attempts)
    IN  /\ AllRateLimited(f, n - 1)
        /\ (n > 0 /\ f.attempts[n] # "rate_limited")
           => /\ f.pc = "done"
              /\ f.spawns = n
              /\ f.sleeps = n - 1

\* a retry that timed out: the call ended there, after 2 spawns and 1 sleep
C4_Witness ==
  \E i \in 1..Len(tasks) :
    /\ rs[i].attempts = <<"rate_limited", "other">>
    /\ rs[i].pc = "done"
    /\ rs[i].ret.kind = "result"
    /\ status_label(rs[i].ret.r) = Label("TIMEOUT", 0)
    /\ max_retries = 2

\* the adapter keys other than the primary
OtherAgents == Range(AdapterKeys(adapters)) \ {primary}

PromptKind(q) == IF "kind" \in DOMAIN q THEN q.kind ELSE "json"

IsAnalysisCall(c) ==
  /\ c.op = "run_single"
  /\ c.agent = primary
  /\ PromptKind(c.prompt) = "analysis"
  /\ c.prompt.request = UserPrompt

IsSynthesisCall(c) ==
  /\ c.op = "run_single"
  /\ c.agent = primary
  /\ PromptKind(c.prompt) = "synthesis"
  /\ c.prompt.task = UserPrompt

IsDirectCall(c) == c = [op |-> "run_single", agent |-> primary, prompt |-> UserPrompt,
                        json_output |-> FALSE]

\* a run_parallel call that sends the unchanged user prompt to every adapter
\* key other than the primary, once each, and to nobody else
IsBroadcastCall(c) ==
  /\ c.op = "run_parallel"
  /\ Len(c.tasks) = Cardinality(OtherAgents)
  /\ \A a \in OtherAgents : \E t \in 1..Len(c.tasks) : c.tasks[t][1] = a
  /\ \A t \in 1..Len(c.tasks) :
       /\ c.tasks[t][1] \in OtherAgents
       /\ c.tasks[t][2] = UserPrompt

ParallelCalls == {k \in 1..Len(calls) : calls[k].op = "run_parallel"}
SynthesisCalls == {k \in 1..Len(calls) : calls[k].op = "run_single"
                                          /\ PromptKind(calls[k].prompt) = "synthesis"}

\* C5: with the coordinator-only primary ("claude"), the primary is never a
\* target of a run_parallel task, and the only prompts sent to it through
\* run_single are the analysis prompt and the synthesis prompt (so neither a
\* subtask, nor the user prompt, nor a self-task runs on it).
C5_CoordinatorNeverWorks ==
  primary = "claude" =>
    \A k \in 1..Len(calls) :
      IF calls[k].op = "run_parallel"
        THEN \A t \in 1..Len(calls[k].tasks) : calls[k].tasks[t][1] # primary
        ELSE /\ calls[k].agent = primary
             /\ PromptKind(calls[k].prompt) \in {"analysis", "synthesis"}

\* a finished run of a claude primary whose plan gave claude a valid subtask
\* and a self-task, next to a subtask that was dispatched
C5_Witness ==
  /\ primary = "claude"
  /\ o_pc = "done"
  /\ outcome.kind = "returned"
  /\ analysis = "ok"
  /\ Truthy(Get(plan, "delegate", JBool(FALSE)))
  /\ Truthy(Get(plan, "self_task", JNull))
  /\ Get(plan, "subtasks", JList(<<>>)) =
       JList(<<JObj([agent |-> JStr("claude"), prompt |-> JStr(<<"p">>)]),
               JObj([agent |-> JStr("gemini"), prompt |-> JStr(<<"p">>)])>>)
  /\ Len(calls) = 3

\* C6: every finished run has one of the call sequences of the state machine:
\* the analysis call first; then nothing more and the fatal error, or one
\* direct run_single on the primary and a return, or one run_parallel, at most
\* one self-task run_single, one synthesis run_single as the last call and a
\* return.  run_parallel is never called twice.
C6_RunFollowsStateMachine ==
  /\ Cardinality(ParallelCalls) <= 1
  /\ Len(calls) >= 1 => IsAnalysisCall(calls[1])
  /\ o_pc = "done" =>
       LET n == Len(calls)
       IN  \/ /\ n = 1
              /\ outcome = [kind |-> "raised", error |-> FatalError]
           \/ /\ n = 2
              /\ IsDirectCall(calls[2])
              /\ outcome.kind = "returned"
           \/ /\ n \in {3, 4}
              /\ calls[2].op = "run_parallel"
              /\ n = 4 => /\ calls[3].op = "run_single"
                          /\ calls[3].agent = primary
                          /\ PromptKind(calls[3].prompt) \notin {"analysis", "synthesis"}
              /\ IsSynthesisCall(calls[n])
              /\ outcome.kind = "returned"

\* C7: on analysis failure with the coordinator-only primary and at least one
\* other agent in the adapter mapping, run() makes one run_parallel call with
\* every other agent exactly once and the user prompt unchanged, then one
\* synthesis call on the primary, and returns that call's output.
C7_FallbackBroadcastOnAnalysisFailure ==
  (/\ o_pc = "done"
   /\ analysis = "failed"
   /\ primary = "claude"
   /\ OtherAgents # {})
  => /\ Len(calls) = 3
     /\ IsAnalysisCall(calls[1])
     /\ IsBroadcastCall(calls[2])
     /\ IsSynthesisCall(calls[3])
     /\ Len(calls[3].prompt.blocks) = Len(calls[2].tasks)
     /\ GaveResult(answers[3])
     /\ outcome = [kind |-> "returned", output |-> answers[3].output]

\* C8: when analysis succeeds with a false delegate flag and the primary is
\* coordinator-only (and another agent exists), run() makes one run_parallel
\* call that sends the unchanged user prompt to every other agent, then
\* synthesizes on the primary; the prompt never runs on the primary.
C8_NoDelegateForcesBroadcast ==
  (/\ o_pc = "done"
   /\ analysis = "ok"
   /\ ~Truthy(Get(plan, "delegate", JBool(FALSE)))
   /\ primary = "claude"
   /\ OtherAgents # {})
  => /\ Len(calls) = 3
     /\ IsBroadcastCall(calls[2])
     /\ IsSynthesisCall(calls[3])
     /\ outcome.kind = "returned"

\* C9: on analysis failure with a primary that is not coordinator-only, run()
\* makes exactly one more executor call, run_single(primary, user prompt),
\* and returns its output; no run_parallel, no synthesis.
C9_DirectFallbackOnAnalysisFailure ==
  (/\ o_pc = "done"
   /\ analysis = "failed"
   /\ primary # "claude")
  => /\ Len(calls) = 2
     /\ IsAnalysisCall(calls[1])
     /\ IsDirectCall(calls[2])
     /\ ParallelCalls = {}
     /\ SynthesisCalls = {}
     /\ GaveResult(answers[2])
     /\ outcome = [kind |-> "returned", output |-> answers[2].output]

\* C10: with the coordinator-only primary and no other agent in the adapter
\* mapping, no run_parallel call and no synthesis call is ever made, and a run
\* that reached a worker broadcast branch (analysis failure, false delegate
\* flag, no valid subtask) ended at once with the fatal error: the analysis is
\* the only executor call of the run.
C10_NoWorkerIsFatal ==
  (primary = "claude" /\ OtherAgents = {})
  => /\ ParallelCalls = {}
     /\ SynthesisCalls = {}
     /\ analysis = "failed" => broadcast_from = "analysis_failure"
     /\ broadcast_from # "none"
        => /\ o_pc = "done"
           /\ outcome = [kind |-> "raised", error |-> FatalError]
           /\ Len(calls) = 1

\* claude alone, a delegating plan whose only subtask targets claude itself
C10_Witness ==
  /\ primary = "claude"
  /\ adapters = <<Adapter("claude", "claude")>>
  /\ o_pc = "done"
  /\ broadcast_from = "no_subtasks"
  /\ Get(plan, "subtasks", JList(<<>>)) =
       JList(<<JObj([agent |-> JStr("claude"), prompt |-> JStr(<<"p">>)])>>)
  /\ outcome = [kind |-> "raised", error |-> FatalError]

\* C11: run() ends with an error only in the fatal case (coordinator-only
\* primary with no other agent): whatever the primary answers to the analysis,
\* including any object with a delegate key whatever the shape of its subtasks
\* and self_task values, and whatever the workers return, a finished run
\* returned a text.
C11_RunRaisesOnlyFatal ==
  (o_pc = "done" /\ outcome.kind = "raised")
  => /\ outcome.error = FatalError
     /\ primary = "claude"
     /\ OtherAgents = {}

\* the entries of the accepted plan's subtasks, in plan order
PlanSubtasks == IterItems(Get(plan, "subtasks", JList(<<>>)))

PromptMissingOrBlank(e) ==
  \/ e.t # "obj"
  \/ "prompt" \notin DOMAIN e.v
  \/ e.v.prompt.t = "null"
  \/ e.v.prompt.t = "str" /\ StripChars(e.v.prompt.v) = <<>>

TargetsAvailableAgent(e) ==
  /\ e.t = "obj"
  /\ "agent" \in DOMAIN e.v
  /\ e.v.agent.t = "str"
  /\ e.v.agent.v \in Range(AdapterKeys(adapters))

\* what the claim keeps: a prompt that is there and not blank, an agent of
\* the adapter mapping, not the coordinator-only primary
KeptAsClaimed(e) ==
  /\ ~PromptMissingOrBlank(e)
  /\ TargetsAvailableAgent(e)
  /\ ~(primary = "claude" /\ e.v.agent.v = primary)

\* ... and the prompt is a string
KeptAsAmended(e) == KeptAsClaimed(e) /\ e.v.prompt.t = "str"

\* run() dispatched subtasks of the plan: its second call is the run_parallel
\* of the DELEGATE path
DispatchedPlan ==
  /\ analysis = "ok"
  /\ Truthy(Get(plan, "delegate", JBool(FALSE)))
  /\ broadcast_from = "none"
  /\ Len(calls) >= 2
  /\ calls[2].op = "run_parallel"

\* the task list is the entries `kept`, in that order, as (agent, prompt)
IsTaskListOf(ts, kept) ==
  /\ Len(ts) = Len(kept)
  /\ \A k \in 1..Len(kept) :
       /\ ts[k][1] = kept[k].v.agent.v
       /\ ts[k][2] = Txt(kept[k].v.prompt.v)

\* C12 as claimed: the task list passed to run_parallel on the DELEGATE path
\* is the plan's subtasks in plan order minus those with a missing or blank
\* prompt, those for an agent outside the adapter mapping and, with the
\* coordinator-only primary, those for the primary; nothing else is dropped.
C12_DispatchListAsClaimed ==
  DispatchedPlan =>
    LET items == PlanSubtasks
    IN  IsTaskListOf(calls[2].tasks,
          SelectSeqIdx(items, [k \in 1..Len(items) |-> KeptAsClaimed(items[k])], 1))

\* C12 amended: a subtask whose prompt is not a string is dropped too; with
\* that, the task list is exactly the remaining subtasks in plan order,
\* whatever their priority and however many name the same agent.
C12_DispatchListIsFilteredPlan ==
  DispatchedPlan =>
    LET items == PlanSubtasks
    IN  IsTaskListOf(calls[2].tasks,
          SelectSeqIdx(items, [k \in 1..Len(items) |-> KeptAsAmended(items[k])], 1))

\* two subtasks for the same agent, the low-priority one first: both were
\* dispatched in plan order
C12_Witness ==
  /\ DispatchedPlan
  /\ primary = "claude"
  /\ PlanSubtasks =
       <<JObj([agent |-> JStr("gemini"), prompt |-> JStr(<<"p">>), priority |-> JStr("low")]),
         JObj([agent |-> JStr("gemini"), prompt |-> JStr(<<"q">>), priority |-> JStr("high")])>>
  /\ calls[2] = ParallelCall(<< <<"gemini", Txt(<<"p">>)>>, <<"gemini", Txt(<<"q">>)>> >>)
  /\ o_pc = "done"

\* the plan was accepted with a true delegate flag and the filter of its
\* subtasks ended with an empty task list
NoSubtaskLeft ==
  /\ analysis = "ok"
  /\ Truthy(Get(plan, "delegate", JBool(FALSE)))
  /\ HasLen(Get(plan, "subtasks", JList(<<>>)))
  /\ LET built == build_dispatch_tasks(Get(plan, "subtasks", JList(<<>>)))
     IN  ~built.raised /\ built.tasks = <<>>

\* C13: when the plan delegates but no subtask survives the filter, the run
\* ends as after an analysis failure: with the coordinator-only primary, the
\* fatal error if there is no other agent, else one broadcast of the user
\* prompt to every other agent, one synthesis, and its output returned; with
\* another primary, one direct run_single of the user prompt whose output is
\* returned, and no run_parallel, self-task or synthesis.
C13_EmptyDispatchFallsBack ==
  (NoSubtaskLeft /\ o_pc = "done") =>
    IF primary = "claude"
      THEN IF OtherAgents = {}
             THEN /\ Len(calls) = 1
                  /\ outcome = [kind |-> "raised", error |-> FatalError]
             ELSE /\ Len(calls) = 3
                  /\ IsBroadcastCall(calls[2])
                  /\ IsSynthesisCall(calls[3])
                  /\ Len(calls[3].prompt.blocks) = Len(calls[2].tasks)
                  /\ GaveResult(answers[3])
                  /\ outcome = [kind |-> "returned", output |-> answers[3].output]
      ELSE /\ Len(calls) = 2
           /\ IsDirectCall(calls[2])
           /\ ParallelCalls = {}
           /\ SynthesisCalls = {}
           /\ GaveResult(answers[2])
           /\ outcome = [kind |-> "returned", output |-> answers[2].output]

\* a finished run that dispatched subtasks of its plan
DelegatePathDone == DispatchedPlan /\ o_pc = "done"

\* C14: on the DELEGATE path with a primary that is not coordinator-only and
\* a plan whose self_task is a non-empty string, the run makes exactly one
\* run_single(primary, self_task) after run_parallel has answered, its result
\* is the last of the collected results, and the synthesis prompt has one
\* block per dispatched task plus one; with the coordinator-only primary the
\* collected results are the worker results and nothing else.
C14_SelfTaskAppendedLast ==
  /\ (DispatchedPlan /\ Len(calls) >= 3) => Len(answers) >= 2
  /\ DelegatePathDone =>
       LET self_task == Get(plan, "self_task", JNull)
           n == Len(calls[2].tasks)
       IN  IF primary = "claude"
             THEN /\ Len(calls) = 3
                  /\ results = answers[2]
                  /\ Len(results) = n
                  /\ IsSynthesisCall(calls[3])
                  /\ Len(calls[3].prompt.blocks) = n
           ELSE IF self_task.t = "str" /\ self_task.v # <<>>
             THEN /\ Len(calls) = 4
                  /\ calls[3] = SingleCall(primary, Txt(self_task.v), FALSE)
                  /\ Len(results) = n + 1
                  /\ SubSeq(results, 1, n) = answers[2]
                  /\ results[n + 1] = answers[3]
                  /\ IsSynthesisCall(calls[4])
                  /\ Len(calls[4].prompt.blocks) = n + 1
                  /\ calls[4].prompt.blocks[n + 1].output = answers[3].output
                  /\ calls[4].prompt.blocks[n + 1].name = UpperName(primary)
           ELSE TRUE

\* the results run() collected before synthesis, from what the executor
\* answered: the run_parallel results, then the self-task result if any
CollectedAnswers ==
  IF Len(calls) = 4 THEN Append(answers[2], answers[3]) ELSE answers[2]

\* C15: run() makes at most one synthesis call; it is a run_single on the
\* primary and the last call of the run; its prompt carries the user prompt
\* and, for each collected result in order, failed ones included, one block
\* with the upper-cased agent name, the result's status label and its
\* output; what run() returns afterwards is the output of that call.
C15_SynthesisBlockPerResult ==
  /\ Cardinality(SynthesisCalls) <= 1
  /\ \A k \in SynthesisCalls :
       LET q == calls[k].prompt
       IN  /\ k = Len(calls)
           /\ k \in {3, 4}
           /\ calls[k].agent = primary
           /\ q.task = UserPrompt
           /\ results = CollectedAnswers
           /\ Len(q.blocks) = Len(results)
           /\ \A j \in 1..Len(results) :
                q.blocks[j] = [name |-> UpperName(results[j].agent_name),
                               status |-> status_label(results[j]),
                               output |-> results[j].output]
           /\ o_pc = "done" =>
                /\ GaveResult(answers[k])
                /\ outcome = [kind |-> "returned", output |-> answers[k].output]

\* C16: once the analysis invocation has answered, the analysis counts as
\* failed exactly when the result is not a success, or its output does not
\* parse even after repair, or the parsed value is not an object, or the
\* object has no delegate key; otherwise the parsed object is the plan,
\* whatever else it holds.
C16_AnalysisFailsExactlyWhen ==
  Len(answers) >= 1 =>
    LET a == answers[1]
        rejected == /\ GaveResult(a)
                    /\ \/ ~a.success
                       \/ a.parsed = Unparseable
                       \/ a.parsed.t # "obj"
                       \/ "delegate" \notin DOMAIN a.parsed.v
    IN  /\ analysis \in {"failed", "ok"}
        /\ analysis = "failed" <=> rejected
        /\ analysis = "failed" => plan = None
        /\ analysis = "ok" => plan = a.parsed

\* C17: when the analysis succeeds with a false delegate flag and the primary
\* is not coordinator-only, the run makes exactly one further call,
\* run_single(primary, user prompt), and returns its output, whatever the
\* plan's subtasks and self_task are; no run_parallel, no synthesis.
C17_NoDelegateRunsDirect ==
  (/\ o_pc = "done"
   /\ analysis = "ok"
   /\ ~Truthy(Get(plan, "delegate", JBool(FALSE)))
   /\ primary # "claude")
  => /\ Len(calls) = 2
     /\ IsDirectCall(calls[2])
     /\ ParallelCalls = {}
     /\ SynthesisCalls = {}
     /\ GaveResult(answers[2])
     /\ outcome = [kind |-> "returned", output |-> answers[2].output]

\* C18: when an attempt's wait times out, kill() is called on the child (a
\* ProcessLookupError it raises is swallowed) and the attempt's result, which
\* is what run_single returns, has success false, rate_limited false, no
\* output, the error text "Agent timed out after <timeout>s" and the status
\* label TIMEOUT.
C18_TimeoutKillsAndReports ==
  \A i \in 1..Len(tasks) :
    LET f == rs[i]
    IN  f.timeouts > 0 =>
          /\ f.timeouts = 1
          /\ f.kill \in KillOutcomes
          /\ f.pc = "done"
          /\ f.ret.kind = "result"
          /\ f.ret.r.agent_name = tasks[i][1]
          /\ ~f.ret.r.success
          /\ ~f.ret.r.rate_limited
          /\ f.ret.r.output = EmptyText
          /\ f.ret.r.stderr =
               << <<"Agent", "timed out", "after",
                    TimeoutText(GetAdapter(adapters, tasks[i][1]).timeout)>> >>
          /\ status_label(f.ret.r) = Label("TIMEOUT", 0)

\* a first attempt timed out and the child was already gone when killed
C18_Witness ==
  \E i \in 1..Len(tasks) :
    /\ rs[i].timeouts = 1
    /\ rs[i].kill = "ProcessLookupError"
    /\ rs[i].attempts = <<"other">>
    /\ rs[i].pc = "done"
    /\ rs[i].ret.kind = "result"
    /\ rs[i].ret.r.retries = 0
    /\ rp_state = "returned"

\* C19: a run_single call on a known agent (max_retries >= 0) never ends by
\* an exception: whatever is raised while spawning the child or waiting for
\* it becomes the failed result of that attempt, with the exception's text
\* and the requested agent name.
C19_SpawnAndWaitErrorsCaptured ==
  \A i \in 1..Len(tasks) :
    LET f == rs[i]
    IN  (Known(i) /\ max_retries >= 0) =>
          /\ \A k \in 1..Len(f.attempts) : f.attempts[k] # "raised"
          /\ f.pc = "done" =>
               /\ f.ret.kind = "result"
               /\ f.ret.r.agent_name = tasks[i][1]

\* C20: a run_single call for an agent that is not in the adapter mapping
\* ends in one step with a failed result whose error text is "Unknown agent:
\* <name>" and whose retries is 0; the call builds no command, spawns no
\* process and never sleeps, whatever max_retries is.
C20_UnknownAgentFailsAtOnce ==
  \A i \in 1..Len(tasks) :
    LET f == rs[i]
        agent_name == tasks[i][1]
    IN  agent_name \notin Range(AdapterKeys(adapters)) =>
          /\ f.pc \in {"start", "done"}
          /\ f.built = 0
          /\ f.spawns = 0
          /\ f.sleeps = 0
          /\ f.attempts = <<>>
          /\ f.pc = "done" =>
               /\ f.ret.kind = "result"
               /\ f.ret.r.agent_name = agent_name
               /\ ~f.ret.r.success
               /\ ~f.ret.r.rate_limited
               /\ f.ret.r.retries = 0
               /\ f.ret.r.stderr = << <<"Unknown agent:", agent_name>> >>
               /\ status_label(f.ret.r) = Label("FAILED", 0)

\* an unknown agent next to a known one that went through a retry
C20_Witness ==
  /\ Len(tasks) = 2
  /\ tasks[1][1] = "nope"
  /\ rs[1].pc = "done"
  /\ rs[1].ret.kind = "result"
  /\ rs[2].sleeps = 1
  /\ rs[2].built = 1
  /\ rp_state = "returned"
  /\ ~processed[1].success

\* a finished call ended by what its own attempts gave: an exception of its
\* latest attempt, the unknown-agent or empty-range exit with no attempt, or
\* the result of its latest attempt
EndedByOwnOutcome(i, f) ==
  IF f.attempts = <<>>
    THEN IF Known(i) THEN f.ret.kind = "exception" /\ f.ret.error.type = "AssertionError"
                     ELSE f.ret.kind = "result"
  ELSE IF f.attempts[Len(f.attempts)] = "raised"
    THEN /\ f.ret.kind # "result"
         /\ f.spawns = Len(f.attempts)
  ELSE /\ f.ret.kind = "result"
       /\ [f.ret.r EXCEPT !.retries = 0] = f.last_attempt

\* C21: run_parallel cancels nothing: a step of one task, whether it ends
\* that task by a failure, a timeout or an exception, leaves the frame of
\* every sibling as it was; every task that ends ends by the outcome of its
\* own attempts; and run_parallel returns only once every task has ended.
C21_NoCrossTaskCancellation ==
  [][ /\ \A i \in 1..Len(tasks) :
           rs'[i] # rs[i] =>
             /\ \A j \in 1..Len(tasks) : j # i => rs'[j] = rs[j]
             /\ rs'[i].pc = "done" => EndedByOwnOutcome(i, rs'[i])
      /\ rp_state' = "returned" => \A i \in 1..Len(tasks) : rs'[i].pc = "done"
    ]_vars

\* task 1 ended first, by an exception; task 2 then ended on its own, after a
\* rate-limited attempt and a retry that succeeded
C21_Witness ==
  /\ Len(tasks) = 2
  /\ completed = <<1, 2>>
  /\ rs[1].ret.kind = "exception"
  /\ rs[2].attempts = <<"rate_limited", "other">>
  /\ rs[2].ret.kind = "result"
  /\ rs[2].ret.r.success
  /\ rp_state = "returned"
  /\ processed[2] = rs[2].ret.r

\* C22: in the list run_parallel returns, the entry of a task whose coroutine
\* gave the join anything but a result is a failed result that carries that
\* task's agent name.
C22_UnexpectedFailureKeepsAgentName ==
  rp_state = "returned" =>
    /\ Len(processed) = Len(tasks)
    /\ \A i \in 1..Len(tasks) :
         rs[i].ret.kind # "result" =>
           /\ ~processed[i].success
           /\ processed[i].agent_name = tasks[i][1]

\* C23: the retry state of a run_single call on a known agent (max_retries
\* >= 0) is its own: while it runs, its attempt counter is the number of its
\* own finished attempts, all of them rate-limited and at most max_retries;
\* when it has ended, it made one spawn per attempt, it stopped at its first
\* attempt that was not rate-limited or after max_retries + 1 rate-limited
\* ones, and the retries value of its result is the number of its own
\* rate-limited attempts before the last (max_retries when all were) --
\* whatever the sibling tasks did, also those naming the same agent.
C23_RetryStateIsLocal ==
  \A i \in 1..Len(tasks) :
    LET f == rs[i]
        n == Len(f.attempts)
    IN  (Known(i) /\ max_retries >= 0) =>
          /\ f.pc \in {"sleep", "spawn", "wait"} =>
               /\ f.attempt = n
               /\ n <= max_retries
               /\ AllRateLimited(f, n)
               /\ f.spawns = IF f.pc = "wait" THEN n + 1 ELSE n
          /\ f.pc = "done" =>
               /\ n >= 1
               /\ f.spawns = n
               /\ AllRateLimited(f, n - 1)
               /\ f.attempts[n] = "rate_limited" =>
                    /\ n = max_retries + 1
                    /\ f.ret.kind = "result"
                    /\ f.ret.r.retries = max_retries
               /\ f.attempts[n] = "other" =>
                    /\ f.ret.kind = "result"
                    /\ f.ret.r.retries = n - 1
               /\ f.attempts[n] = "raised" => f.ret.kind # "result"

\* two tasks for the same agent: one used all its retries, the other
\* succeeded on its first retry
C23_Witness ==
  /\ max_retries = 2
  /\ Len(tasks) = 2
  /\ tasks[1][1] = tasks[2][1]
  /\ rs[1].attempts = <<"rate_limited", "rate_limited", "rate_limited">>
  /\ rs[2].attempts = <<"rate_limited", "other">>
  /\ rp_state = "returned"
  /\ processed[1].retries = 2
  /\ processed[2].retries = 1
  /\ processed[2].success

\* the positions of a "retry after <number>" in a word sequence
RetryAfterPositions(w) ==
  {k \in 1..(Len(w) - 1) : w[k] = "retry after" /\ w[k + 1] \in Numerals}

\* C24: the delay slept before attempt N >= 1 is min(r, retry_max_delay)
\* when the previous attempt's output and error text, read together, hold a
\* retry-after value (r being the first one), and
\* min(retry_base_delay * 2^(N-1), retry_max_delay) otherwise; it never
\* exceeds retry_max_delay.
C24_DelayBeforeRetry ==
  \A i \in 1..Len(tasks) :
    LET f == rs[i]
    IN  (f.pc \in {"spawn", "wait"} /\ f.attempt >= 1) =>
          LET w == Flatten(f.last_result.output \o f.last_result.stderr)
              K == RetryAfterPositions(w)
              first == CHOOSE k \in K : \A j \in K : k <= j
          IN  /\ f.sleeps = f.attempt
              /\ f.delay <= retry_max_delay
              /\ f.delay = IF K # {}
                             THEN Min(NumeralValue(w[first + 1]), retry_max_delay)
                             ELSE Min(retry_base_delay * 2 ^ (f.attempt - 1), retry_max_delay)

\* the first attempt asked for 9 seconds and the cap is 3: the call slept 3
C24_Witness ==
  \E i \in 1..Len(tasks) :
    /\ rs[i].pc = "wait"
    /\ rs[i].attempt = 1
    /\ retry_base_delay = 2
    /\ retry_max_delay = 3
    /\ rs[i].last_result.stderr = << <<"rate limit", "exceeded.">>, <<"retry after", "9">> >>
    /\ rs[i].delay = 3

\* success only with exit code zero and no rate limit
SuccessIsClean(r) == r.success => (r.returncode = 0 /\ ~r.rate_limited)

\* C25: every result a run_single call returns and every entry of the list
\* run_parallel returns has success true only if its exit code is zero and
\* it is not rate-limited; the results built for an unknown agent, a timeout,
\* an exception and exhausted retries are all unsuccessful.
C25_SuccessImpliesCleanExit ==
  /\ \A i \in 1..Len(tasks) :
       LET f == rs[i]
       IN  (f.pc = "done" /\ f.ret.kind = "result") =>
             /\ SuccessIsClean(f.ret.r)
             /\ (~Known(i) \/ f.timeouts > 0 \/ f.ret.r.returncode = -1
                 \/ f.attempts[Len(f.attempts)] = "rate_limited") => ~f.ret.r.success
  /\ rp_state = "returned" =>
       \A i \in 1..Len(tasks) :
         /\ SuccessIsClean(processed[i])
         /\ rs[i].ret.kind # "result" => ~processed[i].success

\* a run whose first task exited with code 0 but was rate-limited to the end
\* and whose second task succeeded
C25_Witness ==
  /\ rp_state = "returned"
  /\ Len(tasks) = 2
  /\ processed[1].returncode = 0
  /\ processed[1].rate_limited
  /\ ~processed[1].success
  /\ processed[2].success
  /\ processed[2].returncode = 0

\* the texts of an attempt's child match a rate-limit pattern
RawMatch(o) == Words(o.stdout \o o.stderr) \cap RateLimitWords # {}

\* ... after trimming and after the adapter's stderr filter
FilteredMatch(adapter, o) ==
  Words(Strip(o.stdout) \o filter_stderr(adapter, Strip(o.stderr))) \cap RateLimitWords # {}

\* an attempt marked rate-limited is unsuccessful and is followed by another
\* attempt exactly while retries remain
TreatedAsRateLimited(f) ==
  /\ f.last_attempt.rate_limited
  /\ ~f.last_attempt.success
  /\ f.attempts[Len(f.attempts)] = "rate_limited"
  /\ f.pc = "done" <=> Len(f.attempts) = max_retries + 1

\* C26 as claimed: an attempt whose child printed a rate-limit pattern on
\* stdout or stderr is marked rate_limited whatever its exit code, is not a
\* success and is retried while retries remain.
C26_RawMatchIsRateLimited ==
  \A i \in 1..Len(tasks) :
    LET f == rs[i]
    IN  (f.last_raw # None /\ RawMatch(f.last_raw)) => TreatedAsRateLimited(f)

\* C26 amended: the patterns are looked for in the trimmed stdout and in the
\* stderr the adapter's filter kept; an attempt is marked rate_limited
\* exactly when one is found there, whatever its exit code, and then it is
\* not a success and is retried while retries remain.
C26_FilteredMatchIsRateLimited ==
  \A i \in 1..Len(tasks) :
    LET f == rs[i]
    IN  f.last_raw # None =>
          IF FilteredMatch(GetAdapter(adapters, tasks[i][1]), f.last_raw)
            THEN TreatedAsRateLimited(f)
            ELSE ~f.last_attempt.rate_limited

\* an attempt that exited with code 0 and printed "rate limit": marked, and
\* the call is about to sleep before its retry
C26_Witness ==
  \E i \in 1..Len(tasks) :
    /\ rs[i].pc = "sleep"
    /\ rs[i].last_raw.returncode = 0
    /\ RawMatch(rs[i].last_raw)
    /\ rs[i].last_attempt.rate_limited
    /\ ~rs[i].last_attempt.success
    /\ rs[i].attempt = 1

\* the invariant of AgentResult: success is true only if the result is not
\* rate-limited.  parse_output, from_error and the timeout result, the places
\* where the program builds a result, all keep it.
HonoursResultInvariant(r) == r.success => ~r.rate_limited

\* C27: the status label of an AgentResult with rate_limited = true is
\* RATE_LIMITED, whatever else the result holds: its retries, and an error
\* text with timeout wording, do not change the label.  An AgentResult is a
\* record that honours the invariant of the type.
C27_RateLimitedLabel ==
  (/\ fn_in.fn = "status_label"
   /\ fn_out # None
   /\ HonoursResultInvariant(fn_in.arg)
   /\ fn_in.arg.rate_limited)
  => fn_out = Label("RATE_LIMITED", 0)

\* a rate-limited result that was retried and whose error text speaks of a
\* timeout is labelled RATE_LIMITED
C27_Witness ==
  /\ fn_in.fn = "status_label"
  /\ fn_in.arg.rate_limited
  /\ fn_in.arg.retries > 0
  /\ fn_in.arg.stderr = << <<"Connection", "timeout">> >>
  /\ fn_out = Label("RATE_LIMITED", 0)

\* C28 as claimed: for a result that is not rate-limited the label is SUCCESS
\* when success and retries = 0, SUCCESS (retried Nx) when success and
\* retries = N > 0, TIMEOUT when not success and the error text holds the
\* "timed out" wording, FAILED for every other unsuccessful result.
C28_LabelTimedOutWording ==
  (fn_in.fn = "status_label" /\ fn_out # None /\ ~fn_in.arg.rate_limited)
  => LET r == fn_in.arg
     IN  fn_out = IF r.success /\ r.retries = 0 THEN Label("SUCCESS", 0)
                  ELSE IF r.success THEN Label("SUCCESS (retried Nx)", r.retries)
                  ELSE IF "timed out" \in LowerWords(r.stderr) THEN Label("TIMEOUT", 0)
                  ELSE Label("FAILED", 0)

\* C28 amended: TIMEOUT when not success and the error text holds "timed
\* out" or "timeout", in any letter case; FAILED for every other
\* unsuccessful result that is not rate-limited.
C28_LabelTimeoutWordings ==
  (fn_in.fn = "status_label" /\ fn_out # None /\ ~fn_in.arg.rate_limited)
  => LET r == fn_in.arg
     IN  fn_out = IF r.success /\ r.retries = 0 THEN Label("SUCCESS", 0)
                  ELSE IF r.success THEN Label("SUCCESS (retried Nx)", r.retries)
                  ELSE IF \E w \in Words(r.stderr) :
                            Lower(w) = "timed out" \/ Lower(w) = "timeout"
                    THEN Label("TIMEOUT", 0)
                  ELSE Label("FAILED", 0)

\* a failed result whose error text says "Connection timeout" is labelled
\* TIMEOUT
C28_Witness ==
  /\ fn_in.fn = "status_label"
  /\ ~fn_in.arg.success
  /\ ~fn_in.arg.rate_limited
  /\ fn_in.arg.stderr = << <<"Connection", "timeout">> >>
  /\ fn_out = Label("TIMEOUT", 0)

\* the names compare() is asked for: the given list, or every adapter's key
\* when no name is given
CompareRequested ==
  IF fn_in.agents.names = <<>> THEN AdapterKeys(adapters) ELSE fn_in.agents.names

CompareResolves(k) == HasAdapter(adapters, CompareRequested[k])

CompareResolved == {k \in 1..Len(CompareRequested) : CompareResolves(k)}

\* requested positions of the j-th resolvable name
CompareTargetAt(j) ==
  CHOOSE k \in CompareResolved : Cardinality({h \in CompareResolved : h <= k}) = j

\* C29: compare(prompt, agents) returns one result per requested agent that
\* is an adapter, in the order requested, out of exactly one run_parallel
\* call whose tasks all carry the prompt, with no run_single (analysis or
\* synthesis) call; when no requested name is an adapter it returns the empty
\* list and the executor is never called.
C29_CompareFansOutOnce ==
  (fn_in.fn = "compare" /\ fn_out # None /\ fn_out.kind = "returned")
  => LET n == Cardinality(CompareResolved)
     IN  /\ Len(fn_out.value) = n
         /\ \A k \in 1..Len(calls) : calls[k].op = "run_parallel"
         /\ IF n = 0
              THEN calls = <<>> /\ fn_out.value = <<>>
              ELSE /\ Len(calls) = 1
                   /\ Len(calls[1].tasks) = n
                   /\ \A j \in 1..n :
                        /\ calls[1].tasks[j] = <<CompareRequested[CompareTargetAt(j)], fn_in.prompt>>
                        /\ fn_out.value[j].agent_name = CompareRequested[CompareTargetAt(j)]
                   /\ fn_out.value = answers[1]

\* compare() asked for codex, an unknown name and claude over the three
\* adapters has returned two results
C29_Witness ==
  /\ fn_in.fn = "compare"
  /\ fn_in.agents = AgentList(<<"codex", "nope", "claude">>)
  /\ adapters = StandardAdapters
  /\ fn_out # None
  /\ fn_out.kind = "returned"
  /\ Len(fn_out.value) = 2
  /\ Len(calls) = 1

\* the approval flag of each agent and where the command holds it
ApprovalFlag(name) ==
  IF name = "claude" THEN <<"--permission-mode", "dontAsk">>
  ELSE IF name = "gemini" THEN <<"-y">>
  ELSE <<"--full-auto">>

ModelFlag(name) == IF name = "claude" THEN "--model" ELSE "-m"

HoldsAt(cmd, k, flag) ==
  /\ k + Len(flag) - 1 <= Len(cmd)
  /\ \A j \in 1..Len(flag) : cmd[k + j - 1] = flag[j]

\* C30: for every adapter and every adapter configuration, the command built
\* with auto_approve=false does not contain the agent's approval flag, and
\* the command built with a model string holds exactly one model flag, which
\* is followed by that model.
C30_BuildCommandFlags ==
  (fn_in.fn = "build_command" /\ fn_out # None)
  => LET name == fn_in.adapter.name
         kw == fn_in.kwargs
         cmd == fn_out
         modelAt == {k \in 1..Len(cmd) : cmd[k] = ModelFlag(name)}
     IN  /\ kw.auto_approve = Given(FALSE)
              => \A k \in 1..Len(cmd) : ~HoldsAt(cmd, k, ApprovalFlag(name))
         /\ kw.model # ""
              => /\ Cardinality(modelAt) = 1
                 /\ \A k \in modelAt : HoldsAt(cmd, k, <<ModelFlag(name), kw.model>>)

\* how many elements of the list equal x
CountOf(list, x) == Cardinality({k \in 1..Len(list) : list[k] = x})

\* C31: for the codex adapter the prompt is the last element of the command
\* for every combination of options and extra arguments, and each configured
\* extra argument appears in the command exactly as often as it was
\* configured.
C31_CodexPromptLastExtraArgsOnce ==
  (fn_in.fn = "build_command" /\ fn_out # None /\ fn_in.adapter.name = "codex")
  => LET cmd == fn_out
         extra == fn_in.adapter.extra_args
     IN  /\ cmd[Len(cmd)] = fn_in.prompt
         /\ \A k \in 1..Len(extra) : CountOf(cmd, extra[k]) = CountOf(extra, extra[k])

\* C32: run() leaves the orchestrator's primary, adapter mapping and
\* available-agent list as they were, and a second run() on the same
\* Orchestrator that is given the executor responses of the first makes the
\* same executor calls in the same order and ends as the first did (same
\* returned text).
C32_RunIsStateless ==
  [][ /\ primary' = primary
      /\ adapters' = adapters
      /\ available_agents' = available_agents
      /\ past_runs' # <<>>
           => /\ Len(calls') <= Len(past_runs'[1].calls)
              /\ \A k \in 1..Len(calls') : calls'[k] = past_runs'[1].calls[k]
              /\ o_pc' = "done"
                   => /\ Len(calls') = Len(past_runs'[1].calls)
                      /\ answers' = past_runs'[1].answers
                      /\ outcome' = past_runs'[1].outcome ]_vars

\* a second run() has returned a text after an analysis, a dispatch and a
\* synthesis
C32_Witness ==
  /\ past_runs # <<>>
  /\ o_pc = "done"
  /\ outcome.kind = "returned"
  /\ Len(calls) >= 3
  /\ Len(past_runs[1].calls) >= 3

RECURSIVE SumOf(_)
SumOf(list) == IF list = <<>> THEN 0 ELSE list[1] + SumOf(Tail(list))

\* C33: the duration_seconds of the result run_single returns for a known
\* agent is at least the sum of the durations of all its attempts plus all
\* the backoff delays it slept.
C33_DurationSpansWholeCall ==
  \A i \in 1..Len(rs) :
    (rs[i].pc = "done" /\ rs[i].ret.kind = "result" /\ HasAdapter(adapters, tasks[i][1]))
    => rs[i].duration >= SumOf(rs[i].attempt_secs) + SumOf(rs[i].slept)

\* a call has returned after three attempts and two sleeps, with a duration
\* above that of its last attempt
C33_Witness ==
  \E i \in 1..Len(rs) :
    /\ rs[i].pc = "done"
    /\ rs[i].ret.kind = "result"
    /\ Len(rs[i].attempt_secs) = 3
    /\ Len(rs[i].slept) = 2
    /\ SumOf(rs[i].slept) > 0
    /\ rs[i].duration > rs[i].attempt_secs[3]

\* C34: a streamed invocation spawns one process and no more, whatever the
\* child prints (rate-limit text included); the chunks it yields are the
\* child's stdout lines, one chunk per line, in the order they were written.
C34_StreamOneProcessLinesInOrder ==
  fn_in.fn = "stream"
  => /\ fn_out.spawns <= 1
     /\ fn_out.pc # "start" => fn_out.spawns = 1
     /\ Len(fn_out.yielded) <= Len(fn_in.lines)
     /\ \A k \in 1..Len(fn_out.yielded) :
          fn_out.yielded[k] = (IF fn_in.lines[k] = "\\xff\\n" THEN "\\ufffd\\n" ELSE fn_in.lines[k])
     /\ fn_out.pc = "done" => Len(fn_out.yielded) = Len(fn_in.lines)

\* a stream whose child wrote a rate-limit line between two other lines has
\* ended after yielding the three of them
C34_Witness ==
  /\ fn_in.fn = "stream"
  /\ fn_in.lines = <<"Hello!\\n", "rate limit\\n", "\\xff\\n">>
  /\ fn_out.pc = "done"
  /\ fn_out.spawns = 1
  /\ Len(fn_out.yielded) = 3

\* C35: with max_retries >= 0, and every attempt and every sleep ending, a
\* run_single call comes to its end after at most max_retries + 1 spawns,
\* and it ends by returning a result when each of its attempts ended by the
\* process completing, by the timeout or by a captured error, whatever
\* sequence of rate-limited and other outcomes occurred.
C35_RunSingleTerminates ==
  /\ <>(\A i \in 1..Len(rs) : rs[i].pc = "done")
  /\ [](\A i \in 1..Len(rs) :
          /\ rs[i].spawns <= max_retries + 1
          /\ (rs[i].pc = "done" /\ max_retries >= 0 /\ "raised" \notin Range(rs[i].attempts))
               => rs[i].ret.kind = "result")

\* a call with max_retries = 2 has returned after three spawns, each of them
\* rate-limited
C35_Witness ==
  \E i \in 1..Len(rs) :
    /\ max_retries = 2
    /\ rs[i].pc = "done"
    /\ rs[i].spawns = 3
    /\ rs[i].attempts = <<"rate_limited", "rate_limited", "rate_limited">>
    /\ rs[i].ret.kind = "result"

\* C36: for every max_retries the configuration accepts, run_single on a
\* known agent makes at least one attempt, so the assertion after the retry
\* loop does not fail and the call returns a result.
C36_AtLeastOneAttempt ==
  \A i \in 1..Len(rs) :
    (rs[i].pc = "done" /\ HasAdapter(adapters, tasks[i][1]))
    => /\ rs[i].spawns >= 1
       /\ ~(rs[i].ret.kind = "exception" /\ rs[i].ret.error.type = "AssertionError")

\* C37: within one run_single call that makes attempts, no sleep precedes
\* the first attempt, one sleep precedes each later attempt and none follows
\* the last one (also when the retries are exhausted): at the end the sleeps
\* number the spawns minus one; the command is built once and every attempt
\* spawns that same argument vector.
C37_OneSleepPerRetrySameCommand ==
  \A i \in 1..Len(rs) :
    LET f == rs[i]
    IN  /\ f.spawns = 0 => f.sleeps = 0
        /\ f.spawns >= 1 =>
             /\ f.sleeps \in {f.spawns - 1, f.spawns}
             /\ f.sleeps = f.spawns => f.pc = "spawn"
             /\ f.pc = "done" => f.sleeps = f.spawns - 1
        /\ f.built <= 1
        /\ Len(f.argvs) = f.spawns
        /\ \A k \in 1..Len(f.argvs) : f.built = 1 /\ f.argvs[k] = f.argvs[1]

\* a call whose retries were exhausted: three spawns of one command, two
\* sleeps
C37_Witness ==
  \E i \in 1..Len(rs) :
    /\ rs[i].pc = "done"
    /\ rs[i].attempts = <<"rate_limited", "rate_limited", "rate_limited">>
    /\ rs[i].spawns = 3
    /\ rs[i].sleeps = 2
    /\ rs[i].built = 1
    /\ Len(rs[i].argvs) = 3

\* C38: every result run_single(agent_name, ...) returns carries the
\* requested agent_name, on every path and for every adapter mapping, so
\* that the results of run_parallel carry their tasks' agent names.
C38_ResultCarriesRequestedName ==
  /\ \A i \in 1..Len(rs) :
       (rs[i].pc = "done" /\ rs[i].ret.kind = "result")
       => rs[i].ret.r.agent_name = tasks[i][1]
  /\ (rp_state = "returned" /\ \A i \in 1..Len(rs) : rs[i].ret.kind = "result")
       => \A i \in 1..Len(tasks) : processed[i].agent_name = tasks[i][1]

\* C39: every agent run() dispatches work to, from the planned subtasks or
\* from the fallback broadcast, is a member of the orchestrator's
\* available_agents list.
C39_DispatchOnlyToAvailableAgents ==
  \A k \in 1..Len(calls) :
    calls[k].op = "run_parallel"
    => \A j \in 1..Len(calls[k].tasks) :
         calls[k].tasks[j][1] \in Range(available_agents)

\* C40: run() does not act on the success flag of the results it gets.
\* When every result of the worker batch is failed, the next call is still
\* made: the synthesis, or the self-task whose answer, failed or not, is
\* followed by the synthesis.  When the last invocation of the run, direct or
\* synthesis, is unsuccessful, run() returns that result's output text.
C40_FailedResultsDoNotStopRun ==
  /\ (/\ Len(calls) >= 2
      /\ Len(answers) >= 2
      /\ calls[2].op = "run_parallel"
      /\ \A j \in 1..Len(answers[2]) : ~answers[2][j].success)
     => /\ Len(calls) >= 3
        /\ calls[3].op = "run_single"
        /\ calls[3].agent = primary
        /\ \/ IsSynthesisCall(calls[3])
           \/ (Len(answers) >= 3 /\ "success" \in DOMAIN answers[3])
                => (Len(calls) >= 4 /\ IsSynthesisCall(calls[4]))
  /\ LET k == Len(calls)
     IN  (/\ o_pc = "done"
          /\ k >= 2
          /\ Len(answers) = k
          /\ calls[k].op = "run_single"
          /\ "success" \in DOMAIN answers[k]
          /\ ~answers[k].success)
         => outcome = [kind |-> "returned", output |-> answers[k].output]

\* every worker failed, the synthesis was made and failed too, and run()
\* returned its (empty) output
C40_Witness ==
  /\ o_pc = "done"
  /\ Len(calls) = 3
  /\ Len(answers) = 3
  /\ calls[2].op = "run_parallel"
  /\ Len(answers[2]) >= 1
  /\ \A j \in 1..Len(answers[2]) : ~answers[2][j].success
  /\ IsSynthesisCall(calls[3])
  /\ GaveResult(answers[3])
  /\ ~answers[3].success
  /\ outcome = [kind |-> "returned", output |-> EmptyText]

====
